---- MODULE Spec2Model ----
(***************************************************************************)
(* PyInvest simulation core: ParameterRange validation, MonteCarloInput    *)
(* validation, EventsManager consolidation, the events-aware recurrence    *)
(* of MonteCarloEngine, the representative-scenario extraction and the     *)
(* MonteCarloWorker life cycle.                                            *)
(*                                                                         *)
(* Amounts are integers.  Optional[float] fields are sequences: <<>> is    *)
(* None and <<v>> is the value v.  Dates are <<year, month>> pairs (the    *)
(* day of month is never read by the modelled code).                       *)
(***************************************************************************)
EXTENDS Integers, Sequences, FiniteSets, TLC

VARIABLES
    range,          \* SpecRange: the ParameterRange under validation
    range_result,   \* SpecRange: what ParameterRange.validate() returned
    inputs,         \* the caller's MonteCarloInput
    events,         \* EventsManager.events of inputs.events_manager
    validation,     \* SpecValidate: what MonteCarloInput.validate_all() returned
    pc,             \* position of MonteCarloWorker.run
    signals,        \* signals emitted by the worker, in order
    raised,         \* error entries of the ValueError raised by the constructor
    samples,        \* the random draws made by ParameterRange.sample in run()
    result,         \* the MonteCarloResult returned by MonteCarloEngine.run
    simulated,      \* what a direct call of apply_events_to_simulation returned
    arrays,         \* SpecRepr: arguments of extract_representative_scenarios
    scenarios,      \* SpecRepr: its returned list
    call,           \* arguments of a direct call of a statistics or events function
    frame,          \* that call's local variables while it runs, then its result
    cdi,            \* statistics module globals: _cached_cdi_rate, _cdi_last_fetch, _cdi_source
    now,            \* datetime.now(), in hours
    workers         \* the SimulationWorker objects handed to the thread pool

vars == <<range, range_result, inputs, events, validation, pc, signals,
          raised, samples, result, simulated, arrays, scenarios, call, frame,
          cdi, now, workers>>

rangeVars == <<range, range_result>>
validateVars == <<validation>>
engineVars == <<inputs, events, pc, signals, raised, samples, result>>
reprVars == <<arrays, scenarios>>
simVars == <<simulated>>
callVars == <<call, frame>>
moduleVars == <<cdi, now, workers>>

\* ---------------------------------------------------------------------------
\* Bounds of the model
\* ---------------------------------------------------------------------------
MaxValue == 2

MaxYears == 2

MaxEvents == 2

MaxScenarios == 4

\* binary digits kept after the point of an annual rate (a double keeps 52
\* binary digits of mantissa)
RateBits == 2

\* the largest max_iterations passed to find_implicit_rate; like the
\* default of 100 against 52 digits, it exceeds the digits of a rate
MaxIterations == 12

\* the clock of the CDI cache stops after this many hours
MaxHours == 48

\* the workers handed to the thread pool
MaxWorkers == 2

\* significant binary digits of a float in the model of var_95 and cvar_95
\* (a double has 53)
MantissaBits == 5

\* ---------------------------------------------------------------------------
\* Program constants
\* ---------------------------------------------------------------------------
MinSimulations == 100

MaxSimulations == 100000

MonthsPerYear == 12

\* the initial bracket of find_implicit_rate, in percent a year
LowRate == -30

HighRate == 50

\* the cache lifetime of get_risk_free_rate, 86400 seconds
CacheHours == 24

\* the rate get_cdi_info reports without a cached rate, 0.10
DefaultRate == 10

\* ---------------------------------------------------------------------------
\* Optional values
\* ---------------------------------------------------------------------------
None == <<>>

Some(v) == <<v>>

Val(o) == o[1]

NotStarted == [state |-> "unused"]

\* the module globals and the thread pool, for a specification that uses
\* neither
IdleModules == cdi = NotStarted /\ now = 0 /\ workers = <<>>

\* ---------------------------------------------------------------------------
\* monte_carlo.ParameterRange
\* ---------------------------------------------------------------------------
ParameterRange(mn, det, mx) ==
    [min_value |-> mn, deterministic |-> det, max_value |-> mx]

\* validate() without the min == max rejection
ParameterRangeValidate_AllowsEqual(p) ==
    LET has_min == p.min_value # None
        has_det == p.deterministic # None
        has_max == p.max_value # None
    IN  IF ~has_min /\ ~has_det /\ ~has_max THEN <<FALSE, "Incomplete">>
        ELSE IF has_det /\ ~has_min /\ ~has_max THEN <<TRUE, "">>
        ELSE IF has_min /\ has_det /\ ~has_max THEN <<FALSE, "MinDetNoMax">>
        ELSE IF has_max /\ has_det /\ ~has_min THEN <<FALSE, "MaxDetNoMin">>
        ELSE IF has_min /\ ~has_det /\ ~has_max THEN <<FALSE, "OnlyMin">>
        ELSE IF has_max /\ ~has_det /\ ~has_min THEN <<FALSE, "OnlyMax">>
        ELSE IF Val(p.min_value) > Val(p.max_value) THEN <<FALSE, "Inverted">>
        ELSE IF has_det /\ Val(p.deterministic) < Val(p.min_value)
             THEN <<FALSE, "BelowMin">>
        ELSE IF has_det /\ Val(p.deterministic) > Val(p.max_value)
             THEN <<FALSE, "AboveMax">>
        ELSE <<TRUE, "">>

\* ParameterRange.validate(): (is_valid, error message)
ParameterRangeValidate(p) ==
    LET has_min == p.min_value # None
        has_det == p.deterministic # None
        has_max == p.max_value # None
    IN  IF ~has_min /\ ~has_det /\ ~has_max THEN <<FALSE, "Incomplete">>
        ELSE IF has_det /\ ~has_min /\ ~has_max THEN <<TRUE, "">>
        ELSE IF has_min /\ has_det /\ ~has_max THEN <<FALSE, "MinDetNoMax">>
        ELSE IF has_max /\ has_det /\ ~has_min THEN <<FALSE, "MaxDetNoMin">>
        ELSE IF has_min /\ ~has_det /\ ~has_max THEN <<FALSE, "OnlyMin">>
        ELSE IF has_max /\ ~has_det /\ ~has_min THEN <<FALSE, "OnlyMax">>
        ELSE IF has_min /\ has_max
             THEN IF Val(p.min_value) > Val(p.max_value)
                      THEN <<FALSE, "Inverted">>
                  ELSE IF Val(p.min_value) = Val(p.max_value)
                      THEN <<FALSE, "Equal">>
                  ELSE IF has_det /\ Val(p.deterministic) < Val(p.min_value)
                      THEN <<FALSE, "BelowMin">>
                  ELSE IF has_det /\ Val(p.deterministic) > Val(p.max_value)
                      THEN <<FALSE, "AboveMax">>
                  ELSE <<TRUE, "">>
        ELSE <<TRUE, "">>

\* ParameterRange.is_probabilistic()
IsProbabilistic(p) == p.min_value # None /\ p.max_value # None

\* ---------------------------------------------------------------------------
\* SpecRange: validate() applied to every ParameterRange over small values
\* ---------------------------------------------------------------------------
OptValues == {None} \cup {Some(v) : v \in -1..MaxValue}

AllRanges == {ParameterRange(mn, det, mx) : mn \in OptValues, det \in OptValues,
                                            mx \in OptValues}

IdleOutsideRange ==
    /\ inputs = NotStarted /\ events = <<>> /\ validation = NotStarted
    /\ pc = "unused" /\ signals = <<>> /\ raised = NotStarted
    /\ samples = NotStarted /\ result = NotStarted
    /\ simulated = NotStarted
    /\ arrays = NotStarted /\ scenarios = <<>>
    /\ call = NotStarted /\ frame = NotStarted
    /\ IdleModules

\* the variables of the other specifications, for a specification of one
\* direct function call
IdleOutsideCall ==
    /\ range = NotStarted /\ range_result = NotStarted
    /\ inputs = NotStarted /\ events = <<>> /\ validation = NotStarted
    /\ pc = "unused" /\ signals = <<>> /\ raised = NotStarted
    /\ samples = NotStarted /\ result = NotStarted
    /\ simulated = NotStarted
    /\ arrays = NotStarted /\ scenarios = <<>>

InitRange ==
    /\ range \in AllRanges
    /\ range_result = NotStarted
    /\ IdleOutsideRange

Validate ==
    /\ range_result = NotStarted
    /\ range_result' = [state |-> "returned",
                        value |-> ParameterRangeValidate(range)]
    /\ UNCHANGED <<moduleVars, callVars, range, validateVars, engineVars, reprVars, simVars>>

NextRange == Validate

SpecRange == InitRange /\ [][NextRange]_vars

\* C10: validate() succeeds exactly when only deterministic is set, or both
\* min and max are set with min < max and deterministic, if set, lies in
\* [min, max]; in every other case (nothing set, only one of min/max set,
\* min > max, min = max, deterministic outside the range) it fails.
RangeAccepted(p) ==
    \/ p.deterministic # None /\ p.min_value = None /\ p.max_value = None
    \/ /\ p.min_value # None /\ p.max_value # None
       /\ Val(p.min_value) < Val(p.max_value)
       /\ p.deterministic # None =>
              /\ Val(p.min_value) <= Val(p.deterministic)
              /\ Val(p.deterministic) <= Val(p.max_value)

C10_ValidateExactly ==
    range_result # NotStarted =>
        (range_result.value[1] <=> RangeAccepted(range))

C10_Witness ==
    /\ range_result # NotStarted
    /\ range_result.value[1]
    /\ range.min_value # None /\ range.deterministic # None

\* ---------------------------------------------------------------------------
\* monte_carlo.MonteCarloInput
\* ---------------------------------------------------------------------------
MonteCarloInput(cap, apo, rent, anos, meta, nsim, start) ==
    [capital_inicial |-> cap, aporte_mensal |-> apo, rentabilidade_anual |-> rent,
     periodo_anos |-> anos, meta |-> meta, n_simulations |-> nsim,
     start_date |-> start]

\* the error entries of the three parameters, in the order of the params list
ParamErrors(in) ==
    LET entry(name, p) ==
            IF ParameterRangeValidate(p)[1] THEN <<>>
            ELSE << <<name, ParameterRangeValidate(p)[2]>> >>
    IN  entry("Capital Inicial", in.capital_inicial)
        \o entry("Aporte Mensal", in.aporte_mensal)
        \o entry("Rentabilidade Anual", in.rentabilidade_anual)

PeriodErrors(in) ==
    IF in.periodo_anos <= 0 THEN << <<"Periodo", "NotPositive">> >> ELSE <<>>

SimulationErrors(in) ==
    (IF in.n_simulations < MinSimulations
        THEN << <<"Numero de simulacoes", "TooFew">> >> ELSE <<>>)
    \o (IF in.n_simulations > MaxSimulations
        THEN << <<"Numero de simulacoes", "TooMany">> >> ELSE <<>>)

\* validate_all() that returns as soon as one check fails
ValidateAll_FirstOnly(in) ==
    LET errors == ParamErrors(in) \o PeriodErrors(in) \o SimulationErrors(in)
    IN  <<Len(errors) = 0, IF errors = <<>> THEN <<>> ELSE <<Head(errors)>> >>

\* MonteCarloInput.validate_all(): (all valid, list of errors)
ValidateAll(in) ==
    LET errors == ParamErrors(in) \o PeriodErrors(in) \o SimulationErrors(in)
    IN  <<Len(errors) = 0, errors>>

\* a constructor that checks the three parameters only
EngineInit_RangesOnly(in) ==
    [raises |-> ParamErrors(in) # <<>>, errors |-> ParamErrors(in)]

\* MonteCarloEngine.__init__ / _validate: the entries of the ValueError it
\* raises, or no exception
EngineInit(in) ==
    LET v == ValidateAll(in)
    IN  IF ~v[1] THEN [raises |-> TRUE, errors |-> v[2]]
        ELSE [raises |-> FALSE, errors |-> <<>>]

\* ---------------------------------------------------------------------------
\* SpecValidate: validate_all() and the engine constructor on inputs whose
\* three parameters, period and number of simulations are valid or not
\* independently of each other
\* ---------------------------------------------------------------------------
RangeShapes ==
    { ParameterRange(None, None, None),
      ParameterRange(None, Some(1), None),
      ParameterRange(Some(0), None, Some(2)),
      ParameterRange(Some(0), Some(1), None),
      ParameterRange(Some(2), None, Some(0)),
      ParameterRange(Some(1), Some(0), Some(2)) }

\* the longest period the input form lets through (window_modern
\* _validate_inputs); validate_all() itself has no upper limit
MaxPeriod == 100

PeriodChoices == {-1, 0} \cup (1..MaxYears) \cup {MaxPeriod, MaxPeriod + 1}

\* the goal is whatever number the goal field parses to
MetaChoices == {-1, 0, 1}

SimulationChoices ==
    {MinSimulations - 1, MinSimulations, MaxSimulations, MaxSimulations + 1}

StartOfYear == <<2025, 1>>

InitValidate ==
    /\ inputs \in {MonteCarloInput(c, a, r, y, g, n, StartOfYear) :
                       c \in RangeShapes, a \in RangeShapes, r \in RangeShapes,
                       y \in PeriodChoices, g \in MetaChoices,
                       n \in SimulationChoices}
    /\ validation = NotStarted
    /\ range = NotStarted /\ range_result = NotStarted
    /\ events = <<>> /\ pc = "unused" /\ signals = <<>> /\ raised = NotStarted
    /\ samples = NotStarted /\ result = NotStarted
    /\ simulated = NotStarted
    /\ arrays = NotStarted /\ scenarios = <<>>
    /\ call = NotStarted /\ frame = NotStarted
    /\ IdleModules

CallValidateAll ==
    /\ validation = NotStarted
    /\ validation' = [state |-> "returned", value |-> ValidateAll(inputs)]
    /\ UNCHANGED <<moduleVars, callVars, rangeVars, inputs, events, pc, signals, raised, samples,
                   result, reprVars, simVars>>

ConstructEngine ==
    /\ raised = NotStarted
    /\ raised' = [state |-> "constructed"] @@ EngineInit(inputs)
    /\ UNCHANGED <<moduleVars, callVars, rangeVars, validateVars, inputs, events, pc, signals,
                   samples, result, reprVars, simVars>>

NextValidate == CallValidateAll \/ ConstructEngine

SpecValidate == InitValidate /\ [][NextValidate]_vars

\* C8: validate_all() and the constructor's ValueError list every violated
\* constraint: exactly one entry for each parameter whose validate() fails,
\* one entry when periodo_anos <= 0 and one entry when n_simulations is out
\* of bounds, whatever else is violated.
Entries(errors, name) == {i \in 1..Len(errors) : errors[i][1] = name}

ParamFails(p) == ~RangeAccepted(p)

ListsEveryViolation(errors) ==
    /\ Cardinality(Entries(errors, "Capital Inicial"))
           = IF ParamFails(inputs.capital_inicial) THEN 1 ELSE 0
    /\ Cardinality(Entries(errors, "Aporte Mensal"))
           = IF ParamFails(inputs.aporte_mensal) THEN 1 ELSE 0
    /\ Cardinality(Entries(errors, "Rentabilidade Anual"))
           = IF ParamFails(inputs.rentabilidade_anual) THEN 1 ELSE 0
    /\ Cardinality(Entries(errors, "Periodo"))
           = IF inputs.periodo_anos <= 0 THEN 1 ELSE 0
    /\ Cardinality(Entries(errors, "Numero de simulacoes"))
           = IF \/ inputs.n_simulations < MinSimulations
                \/ inputs.n_simulations > MaxSimulations THEN 1 ELSE 0

C8_AllViolationsReported ==
    /\ validation # NotStarted =>
           /\ ListsEveryViolation(validation.value[2])
           /\ validation.value[1] <=> (validation.value[2] = <<>>)
    /\ raised # NotStarted =>
           /\ ListsEveryViolation(raised.errors)
           /\ raised.raises <=> (raised.errors # <<>>)

C8_Witness ==
    /\ validation # NotStarted
    /\ raised # NotStarted /\ raised.raises
    /\ Len(validation.value[2]) = 5
    /\ Len(raised.errors) = 5

\* C11: an input is accepted by validate_all(), and by the constructor that
\* raises on its errors, only if 0 < periodo_anos <= 100, meta >= 0 and
\* 100 <= n_simulations <= 100000.
WithinStatedBounds(in) ==
    /\ 0 < in.periodo_anos /\ in.periodo_anos <= MaxPeriod
    /\ in.meta >= 0
    /\ MinSimulations <= in.n_simulations /\ in.n_simulations <= MaxSimulations

C11_AcceptedOnlyWithinBounds ==
    /\ (validation # NotStarted /\ validation.value[1])
           => WithinStatedBounds(inputs)
    /\ (raised # NotStarted /\ ~raised.raises) => WithinStatedBounds(inputs)

\* ---------------------------------------------------------------------------
\* events.ExtraordinaryEvent and events.EventsManager
\* ---------------------------------------------------------------------------
Max(a, b) == IF a >= b THEN a ELSE b

\* ExtraordinaryEvent(date, description, deposit, withdrawal) after
\* __post_init__, which clamps both amounts at zero
ExtraordinaryEvent(dt, deposit, withdrawal) ==
    [date |-> dt, deposit |-> Max(0, deposit), withdrawal |-> Max(0, withdrawal)]

DateBefore(d1, d2) == d1[1] < d2[1] \/ (d1[1] = d2[1] /\ d1[2] < d2[2])

\* events.append(event); events.sort(key = date): the sort is stable, so the
\* new event lands after every event whose date is not later than its own
AddEventSorted(evs, e) ==
    LET before == {i \in 1..Len(evs) : ~DateBefore(e.date, evs[i].date)}
        k == Cardinality(before)
    IN  SubSeq(evs, 1, k) \o <<e>> \o SubSeq(evs, k + 1, Len(evs))

\* months_diff of get_monthly_consolidated
MonthsDiff(e, start_date) ==
    (e.date[1] - start_date[1]) * MonthsPerYear + (e.date[2] - start_date[2])

\* the loop of get_monthly_consolidated from event i on; consolidated maps a
\* relative month to <<deposits, withdrawals>>
RECURSIVE ConsolidateFrom(_, _, _, _, _)
ConsolidateFrom(evs, i, start_date, months, consolidated) ==
    IF i > Len(evs) THEN consolidated
    ELSE LET d == MonthsDiff(evs[i], start_date)
             entry == IF d \in DOMAIN consolidated THEN consolidated[d]
                      ELSE <<0, 0>>
         IN  IF d < 0 \/ d >= months
                 THEN ConsolidateFrom(evs, i + 1, start_date, months, consolidated)
             ELSE ConsolidateFrom(evs, i + 1, start_date, months,
                      [k \in DOMAIN consolidated \cup {d} |->
                          IF k = d THEN <<entry[1] + evs[i].deposit,
                                          entry[2] + evs[i].withdrawal>>
                          ELSE consolidated[k]])

\* get_monthly_consolidated whose range test is months_diff > months
GetMonthlyConsolidated_OffByOne(evs, start_date, months) ==
    ConsolidateFrom(evs, 1, start_date, months + 1, <<>>)

\* EventsManager.get_monthly_consolidated(start_date, months)
GetMonthlyConsolidated(evs, start_date, months) ==
    ConsolidateFrom(evs, 1, start_date, months, <<>>)

\* the loop of get_yearly_summary from event i on
RECURSIVE YearlyFrom(_, _, _, _, _)
YearlyFrom(evs, i, start_year, years, summary) ==
    IF i > Len(evs) THEN summary
    ELSE LET year_rel == evs[i].date[1] - start_year
         IN  IF 0 <= year_rel /\ year_rel <= years
                 THEN YearlyFrom(evs, i + 1, start_year, years,
                          [summary EXCEPT ![year_rel] =
                              <<@[1] + evs[i].deposit, @[2] + evs[i].withdrawal>>])
             ELSE YearlyFrom(evs, i + 1, start_year, years, summary)

\* EventsManager.get_yearly_summary(start_year, years)
GetYearlySummary(evs, start_year, years) ==
    YearlyFrom(evs, 1, start_year, years, [y \in 0..years |-> <<0, 0>>])

\* ---------------------------------------------------------------------------
\* monte_carlo.MonteCarloEngine: the deterministic, events-aware recurrence
\* ---------------------------------------------------------------------------
\* ParameterRange.get_deterministic_value() of a valid range
GetDeterministicValue(p) ==
    IF p.deterministic # None THEN Val(p.deterministic)
    ELSE (Val(p.min_value) + Val(p.max_value)) \div 2

RECURSIVE Pow(_, _)
Pow(b, e) == IF e = 0 THEN 1 ELSE b * Pow(b, e - 1)

\* 1 + monthly_rate, where monthly_rate = (1 + annual_rate/100) ** (1/12) - 1.
\* The annual rates of the model are those whose monthly growth factor is an
\* integer: -100 % (factor 0), 0 % (factor 1) and 409500 % (factor 2).
OnePlusMonthlyRate(annual_rate) ==
    CHOOSE g \in 0..2 : Pow(g, MonthsPerYear) * 100 = 100 + annual_rate

ExactRates == {-100, 0, 409500}

\* one month of the recurrence in which every failing withdrawal overwrites
\* the recorded insolvency month
MonthWithEvents_LastShortfall(m, previous, growth, monthly, monthly_events, insolvency_month) ==
    LET has == m \in DOMAIN monthly_events
        deposits == IF has THEN monthly_events[m][1] ELSE 0
        withdrawals == IF has THEN monthly_events[m][2] ELSE 0
        funded == previous * growth + monthly + deposits
        short == has /\ withdrawals > 0 /\ funded < withdrawals
        after == IF short THEN 0 ELSE funded - withdrawals
        first == IF short THEN Some(m) ELSE insolvency_month
    IN  [balance |-> IF after < 0 THEN 0 ELSE after,
         insolvency_month |-> IF after < 0 THEN Some(m) ELSE first]

\* one month of _calculate_with_events: interest on the previous balance,
\* regular contribution, the month's deposit, the month's withdrawal, clamp
MonthWithEvents(m, previous, growth, monthly, monthly_events, insolvency_month) ==
    LET has == m \in DOMAIN monthly_events
        deposits == IF has THEN monthly_events[m][1] ELSE 0
        withdrawals == IF has THEN monthly_events[m][2] ELSE 0
        funded == previous * growth + monthly + deposits
        short == has /\ withdrawals > 0 /\ funded < withdrawals
        after == IF has /\ withdrawals > 0
                     THEN (IF funded < withdrawals THEN 0 ELSE funded - withdrawals)
                 ELSE funded
        first == IF short /\ insolvency_month = None THEN Some(m)
                 ELSE insolvency_month
    IN  [balance |-> IF after < 0 THEN 0 ELSE after,
         insolvency_month |-> IF after < 0 /\ first = None THEN Some(m) ELSE first]

RECURSIVE WithEventsFrom(_, _, _, _, _, _, _)
WithEventsFrom(m, total_months, growth, monthly, monthly_events, balances, insolvency_month) ==
    IF m > total_months
        THEN [balances |-> balances, insolvency_month |-> insolvency_month]
    ELSE LET step == MonthWithEvents(m, balances[m - 1], growth, monthly,
                                     monthly_events, insolvency_month)
         IN  WithEventsFrom(m + 1, total_months, growth, monthly, monthly_events,
                            [balances EXCEPT ![m] = step.balance],
                            step.insolvency_month)

\* the recurrence in which a withdrawal equal to the funded balance is
\* recorded as an insolvency
CalculateWithEvents_EqualIsShort(initial, monthly, annual_rate, years, monthly_events) ==
    LET total_months == years * MonthsPerYear
        growth == OnePlusMonthlyRate(annual_rate)
        r == WithEventsFrom(1, total_months, growth, monthly, monthly_events,
                            [m \in 0..total_months |-> IF m = 0 THEN initial ELSE 0],
                            None)
        equal == {m \in (1..total_months) \cap DOMAIN monthly_events :
                     /\ monthly_events[m][2] > 0
                     /\ r.balances[m - 1] * growth + monthly + monthly_events[m][1]
                            = monthly_events[m][2]}
        first == CHOOSE m \in equal : \A k \in equal : m <= k
    IN  IF equal = {} THEN r
        ELSE IF r.insolvency_month # <<>> /\ r.insolvency_month[1] < first THEN r
        ELSE [r EXCEPT !.insolvency_month = <<first>>]

\* MonteCarloEngine._calculate_with_events: balances[0..total_months] and the
\* insolvency month (None when there is none)
CalculateWithEvents(initial, monthly, annual_rate, years, monthly_events) ==
    LET total_months == years * MonthsPerYear
    IN  WithEventsFrom(1, total_months, OnePlusMonthlyRate(annual_rate), monthly,
                       monthly_events,
                       [m \in 0..total_months |-> IF m = 0 THEN initial ELSE 0],
                       None)

RECURSIVE SumOver(_, _)
SumOver(S, f) ==
    IF S = {} THEN 0
    ELSE LET x == CHOOSE y \in S : TRUE IN f[x] + SumOver(S \ {x}, f)

\* the totals of calculate_deterministic, which knows no events
Totals_RegularOnly(det_initial, det_monthly, total_months, monthly_events, final_balance_det) ==
    LET keys == DOMAIN monthly_events
        total_invested == det_initial + det_monthly * total_months
    IN  [total_extra_deposits |-> SumOver(keys, [k \in keys |-> monthly_events[k][1]]),
         total_withdrawals |-> SumOver(keys, [k \in keys |-> monthly_events[k][2]]),
         total_invested |-> total_invested,
         total_interest_det |-> final_balance_det - total_invested]

\* the totals of run(): total invested (extra deposits included) and the
\* deterministic interest (withdrawals added back)
Totals(det_initial, det_monthly, total_months, monthly_events, final_balance_det) ==
    LET keys == DOMAIN monthly_events
        total_regular == det_initial + det_monthly * total_months
        total_extra_deposits == SumOver(keys, [k \in keys |-> monthly_events[k][1]])
        total_withdrawals == SumOver(keys, [k \in keys |-> monthly_events[k][2]])
        total_invested == total_regular + total_extra_deposits
    IN  [total_extra_deposits |-> total_extra_deposits,
         total_withdrawals |-> total_withdrawals,
         total_invested |-> total_invested,
         total_interest_det |-> final_balance_det - total_invested + total_withdrawals]

\* one row of the yearly projection of run()
YearlyRow(year, det_initial, det_monthly, monthly_events, yearly_events, balances_det) ==
    LET month_idx == year * MonthsPerYear
        counted == {m \in 0..(month_idx - 1) : m \in DOMAIN monthly_events}
    IN  [year |-> year,
         total_invested |-> det_initial + det_monthly * month_idx
                            + SumOver(counted, [m \in counted |-> monthly_events[m][1]]),
         balance_deterministic |-> balances_det[month_idx],
         extra_deposits |-> IF year \in DOMAIN yearly_events
                                THEN yearly_events[year][1] ELSE 0,
         withdrawals |-> IF year \in DOMAIN yearly_events
                             THEN yearly_events[year][2] ELSE 0]

\* the deterministic part of MonteCarloEngine.run()
RunDeterministic(in, evs) ==
    LET years == in.periodo_anos
        total_months == years * MonthsPerYear
        det_initial == GetDeterministicValue(in.capital_inicial)
        det_monthly == GetDeterministicValue(in.aporte_mensal)
        det_rate == GetDeterministicValue(in.rentabilidade_anual)
        has_manager == Len(evs) > 0
        monthly_events == IF has_manager
                              THEN GetMonthlyConsolidated(evs, in.start_date, total_months)
                          ELSE <<>>
        yearly_events == IF has_manager
                             THEN GetYearlySummary(evs, in.start_date[1], years)
                         ELSE <<>>
        det == CalculateWithEvents(det_initial, det_monthly, det_rate, years,
                                   monthly_events)
        final_balance_det == det.balances[total_months]
        totals == Totals(det_initial, det_monthly, total_months, monthly_events,
                         final_balance_det)
    IN  [monthly_events |-> monthly_events,
         yearly_events |-> yearly_events,
         balances_deterministic |-> det.balances,
         insolvency_month |-> det.insolvency_month,
         total_invested |-> totals.total_invested,
         total_interest_det |-> totals.total_interest_det,
         final_balance_det |-> final_balance_det,
         yearly_projection |->
             [y \in 0..years |-> YearlyRow(y, det_initial, det_monthly,
                                           monthly_events, yearly_events,
                                           det.balances)],
         total_extra_deposits |-> totals.total_extra_deposits,
         total_withdrawals |-> totals.total_withdrawals]

\* ---------------------------------------------------------------------------
\* events.apply_events_to_simulation
\* ---------------------------------------------------------------------------
InsolvencyEvent(m, balance_before, withdrawal_attempted) ==
    [month |-> m, balance_before |-> balance_before,
     withdrawal_attempted |-> withdrawal_attempted]

RECURSIVE SimulationFrom(_, _, _, _, _, _, _, _)
SimulationFrom(m, months, monthly_rate, monthly_contribution, monthly_events, balances, insolvencies, is_insolvent) ==
    IF m > months THEN [balances |-> balances, insolvencies |-> insolvencies]
    ELSE IF is_insolvent
        THEN SimulationFrom(m + 1, months, monthly_rate, monthly_contribution,
                            monthly_events, [balances EXCEPT ![m] = 0],
                            insolvencies, is_insolvent)
    ELSE LET has == m \in DOMAIN monthly_events
             deposits == IF has THEN monthly_events[m][1] ELSE 0
             withdrawals == IF has THEN monthly_events[m][2] ELSE 0
             funded == balances[m - 1] * (1 + monthly_rate)
                       + monthly_contribution + deposits
             short == has /\ withdrawals > 0 /\ funded < withdrawals
         IN  SimulationFrom(m + 1, months, monthly_rate, monthly_contribution,
                 monthly_events,
                 [balances EXCEPT ![m] =
                     IF short THEN 0
                     ELSE IF has /\ withdrawals > 0 THEN funded - withdrawals
                     ELSE funded],
                 IF short
                     THEN Append(insolvencies, InsolvencyEvent(m, funded, withdrawals))
                 ELSE insolvencies,
                 short)

\* a simulation in which the regular contributions resume after the
\* insolvency month
ApplyEventsToSimulation_Resumes(initial_balance, monthly_contribution, monthly_rate, months, evs, start_date) ==
    LET r == SimulationFrom(1, months, monthly_rate, monthly_contribution,
                            GetMonthlyConsolidated(evs, start_date, months),
                            [m \in 0..months |-> IF m = 0 THEN initial_balance ELSE 0],
                            <<>>, FALSE)
    IN  [balances |->
             [m \in 0..months |->
                 IF r.insolvencies # <<>> /\ m > r.insolvencies[1].month
                     THEN monthly_contribution * (m - r.insolvencies[1].month)
                 ELSE r.balances[m]],
         insolvencies |-> r.insolvencies]

\* apply_events_to_simulation(initial_balance, monthly_contribution,
\*                            monthly_rate, months, events_manager, start_date)
ApplyEventsToSimulation(initial_balance, monthly_contribution, monthly_rate, months, evs, start_date) ==
    SimulationFrom(1, months, monthly_rate, monthly_contribution,
                   GetMonthlyConsolidated(evs, start_date, months),
                   [m \in 0..months |-> IF m = 0 THEN initial_balance ELSE 0],
                   <<>>, FALSE)

\* ---------------------------------------------------------------------------
\* monte_carlo.MonteCarloEngine: sampling and the Monte Carlo matrix
\* ---------------------------------------------------------------------------
\* ParameterRange.sample(n): n copies of the deterministic value when the
\* range is not probabilistic, otherwise the n random draws, which numpy
\* keeps inside [min_value, max_value]
Sample(p, n, drawn) ==
    IF ~IsProbabilistic(p) THEN [i \in 1..n |-> GetDeterministicValue(p)]
    ELSE drawn

\* one month of a row without the final np.maximum(0, ...)
MonthOfRow_NoClamp(m, previous, growth, monthly, monthly_events) ==
    LET has == m \in DOMAIN monthly_events
        deposits == IF has THEN monthly_events[m][1] ELSE 0
        withdrawals == IF has THEN monthly_events[m][2] ELSE 0
    IN  previous * growth + monthly + deposits - withdrawals

\* one month of a row of _calculate_monte_carlo_with_events
MonthOfRow(m, previous, growth, monthly, monthly_events) ==
    LET has == m \in DOMAIN monthly_events
        deposits == IF has THEN monthly_events[m][1] ELSE 0
        withdrawals == IF has THEN monthly_events[m][2] ELSE 0
    IN  Max(0, previous * growth + monthly + deposits - withdrawals)

RECURSIVE RowFrom(_, _, _, _, _, _)
RowFrom(m, total_months, growth, monthly, monthly_events, balances) ==
    IF m > total_months THEN balances
    ELSE RowFrom(m + 1, total_months, growth, monthly, monthly_events,
                 [balances EXCEPT ![m] = MonthOfRow(m, balances[m - 1], growth,
                                                    monthly, monthly_events)])

\* row i of all_balances: the vectorised loop acts on each row independently
MonteCarloRow(initial, monthly, annual_rate, total_months, monthly_events) ==
    RowFrom(1, total_months, OnePlusMonthlyRate(annual_rate), monthly,
            monthly_events,
            [m \in 0..total_months |-> IF m = 0 THEN initial ELSE 0])

\* MonteCarloEngine._calculate_monte_carlo_with_events, given the draws
CalculateMonteCarloWithEvents(in, monthly_events, draws) ==
    LET n == in.n_simulations
        total_months == in.periodo_anos * MonthsPerYear
        initials == Sample(in.capital_inicial, n, draws.capitals)
        monthlies == Sample(in.aporte_mensal, n, draws.monthlies)
        rates == Sample(in.rentabilidade_anual, n, draws.rates)
    IN  [all_balances |-> [i \in 1..n |->
                              MonteCarloRow(initials[i], monthlies[i], rates[i],
                                            total_months, monthly_events)],
         initials |-> initials, monthlies |-> monthlies, rates |-> rates]

\* ---------------------------------------------------------------------------
\* monte_carlo.extract_representative_scenarios
\* ---------------------------------------------------------------------------
Abs(x) == IF x < 0 THEN -x ELSE x

\* sorted(a)[k], k counted from 0
KthSmallest(a, k) ==
    CHOOSE v \in {a[i] : i \in DOMAIN a} :
        /\ Cardinality({i \in DOMAIN a : a[i] < v}) <= k
        /\ k < Cardinality({i \in DOMAIN a : a[i] <= v})

\* np.percentile(a, q) with numpy's linear interpolation, as the fraction
\* <<numerator, 100>>: the value lies at position (n-1)*q/100 of sorted(a)
Percentile(a, q) ==
    LET n == Cardinality(DOMAIN a)
        pos == (n - 1) * q
        lo == pos \div 100
        hi == IF lo + 1 <= n - 1 THEN lo + 1 ELSE n - 1
        below == KthSmallest(a, lo)
        above == KthSmallest(a, hi)
    IN  <<100 * below + (pos % 100) * (above - below), 100>>

\* the sum of a[lo..hi], added pairwise as numpy adds an array
RECURSIVE SumRange(_, _, _)
SumRange(a, lo, hi) ==
    IF lo > hi THEN 0
    ELSE IF lo = hi THEN a[lo]
    ELSE LET mid == (lo + hi) \div 2
         IN  SumRange(a, lo, mid) + SumRange(a, mid + 1, hi)

\* np.mean(a) as the fraction <<sum, n>>
Mean(a) == <<SumRange(a, 1, Cardinality(DOMAIN a)), Cardinality(DOMAIN a)>>

\* int(np.argmin(np.abs(a - target))): the first index at minimal distance
ArgMinAbs(a, target) ==
    LET dist(i) == Abs(target[2] * a[i] - target[1])
    IN  CHOOSE i \in DOMAIN a :
            /\ \A j \in DOMAIN a : dist(i) <= dist(j)
            /\ \A j \in DOMAIN a : j < i => dist(j) > dist(i)

\* a scenario whose balance is the selected one but whose capital is read
\* at the mirrored index instead of the argmin index
RepresentativeScenario_OtherCapital(label, idx, final_balances, capitals, monthlies, rates) ==
    [percentile |-> label,
     capital_inicial |-> capitals[Cardinality(DOMAIN capitals) + 1 - idx],
     aporte_mensal |-> monthlies[idx],
     rentabilidade_anual |-> rates[idx],
     saldo_final |-> final_balances[idx]]

RepresentativeScenario(label, idx, final_balances, capitals, monthlies, rates) ==
    [percentile |-> label,
     capital_inicial |-> capitals[idx],
     aporte_mensal |-> monthlies[idx],
     rentabilidade_anual |-> rates[idx],
     saldo_final |-> final_balances[idx]]

ScenariosConfig == << <<"P5", 5>>, <<"P25", 25>>, <<"P50", 50>>, <<"P75", 75>>,
                      <<"P95", 95>> >>

\* the target balance of entry k of the returned list
TargetBalance(final_balances, k) ==
    IF k <= Len(ScenariosConfig)
        THEN Percentile(final_balances, ScenariosConfig[k][2])
    ELSE Mean(final_balances)

\* extract_representative_scenarios(final_balances, capitals, monthlies, rates)
ExtractRepresentativeScenarios(final_balances, capitals, monthlies, rates) ==
    [k \in 1..(Len(ScenariosConfig) + 1) |->
        RepresentativeScenario(
            IF k <= Len(ScenariosConfig) THEN ScenariosConfig[k][1] ELSE "MEDIA",
            ArgMinAbs(final_balances, TargetBalance(final_balances, k)),
            final_balances, capitals, monthlies, rates)]

\* ---------------------------------------------------------------------------
\* MonteCarloEngine.run()
\* ---------------------------------------------------------------------------
\* MonteCarloInput.has_probabilistic_params()
HasProbabilisticParams(in) ==
    \/ IsProbabilistic(in.capital_inicial)
    \/ IsProbabilistic(in.aporte_mensal)
    \/ IsProbabilistic(in.rentabilidade_anual)

Run(in, evs, draws) ==
    LET det == RunDeterministic(in, evs)
        total_months == in.periodo_anos * MonthsPerYear
        has_mc == HasProbabilisticParams(in)
        mc == CalculateMonteCarloWithEvents(in, det.monthly_events, draws)
        finals == [i \in 1..in.n_simulations |-> mc.all_balances[i][total_months]]
    IN  det @@
        [has_monte_carlo |-> has_mc,
         representative_scenarios |->
             IF has_mc THEN ExtractRepresentativeScenarios(
                                finals, mc.initials, mc.monthlies, mc.rates)
             ELSE <<>>,
         sampled_capitals |-> IF has_mc THEN Some(mc.initials) ELSE None,
         sampled_monthlies |-> IF has_mc THEN Some(mc.monthlies) ELSE None,
         sampled_rates |-> IF has_mc THEN Some(mc.rates) ELSE None,
         sampled_final_balances |-> IF has_mc THEN Some(finals) ELSE None]

\* np.min(a) and np.max(a)
Smallest(a) == CHOOSE v \in {a[i] : i \in DOMAIN a} : \A j \in DOMAIN a : v <= a[j]

Largest(a) == CHOOSE v \in {a[i] : i \in DOMAIN a} : \A j \in DOMAIN a : v >= a[j]

\* all_balances[:, m]
Column(all_balances, m) == [i \in DOMAIN all_balances |-> all_balances[i][m]]

\* balances_det.copy() as a series of fractions
Copy(balances) == [m \in DOMAIN balances |-> <<balances[m], 1>>]

\* run() whose deterministic branch reports a zero minimum series
RunSeries_ZeroMin(in, evs, draws) ==
    LET det == RunDeterministic(in, evs)
        balances_det == det.balances_deterministic
    IN  [balances_mean |-> Copy(balances_det),
         balances_min |-> [m \in DOMAIN balances_det |-> 0],
         balances_max |-> balances_det,
         balances_p10 |-> Copy(balances_det),
         balances_p90 |-> Copy(balances_det),
         balances_p5 |-> Copy(balances_det),
         balances_p95 |-> Copy(balances_det),
         final_balance_mean |-> <<det.final_balance_det, 1>>,
         final_balance_min |-> 0,
         final_balance_max |-> det.final_balance_det]

\* the aggregated series and final statistics of run(): per-month statistics
\* of the matrix when a parameter is probabilistic, copies of the
\* deterministic series otherwise; means and percentiles are fractions
RunSeries(in, evs, draws) ==
    LET det == RunDeterministic(in, evs)
        balances_det == det.balances_deterministic
        total_months == in.periodo_anos * MonthsPerYear
        all_balances ==
            CalculateMonteCarloWithEvents(in, det.monthly_events, draws).all_balances
        stat(f(_)) == [m \in 0..total_months |-> f(Column(all_balances, m))]
        p10(a) == Percentile(a, 10)
        p90(a) == Percentile(a, 90)
        p5(a) == Percentile(a, 5)
        p95(a) == Percentile(a, 95)
    IN  IF HasProbabilisticParams(in)
            THEN [balances_mean |-> stat(Mean),
                  balances_min |-> stat(Smallest),
                  balances_max |-> stat(Largest),
                  balances_p10 |-> stat(p10),
                  balances_p90 |-> stat(p90),
                  balances_p5 |-> stat(p5),
                  balances_p95 |-> stat(p95),
                  final_balance_mean |-> Mean(Column(all_balances, total_months)),
                  final_balance_min |-> Smallest(Column(all_balances, total_months)),
                  final_balance_max |-> Largest(Column(all_balances, total_months))]
        ELSE [balances_mean |-> Copy(balances_det),
              balances_min |-> balances_det,
              balances_max |-> balances_det,
              balances_p10 |-> Copy(balances_det),
              balances_p90 |-> Copy(balances_det),
              balances_p5 |-> Copy(balances_det),
              balances_p95 |-> Copy(balances_det),
              final_balance_mean |-> <<det.final_balance_det, 1>>,
              final_balance_min |-> det.final_balance_det,
              final_balance_max |-> det.final_balance_det]

\* ---------------------------------------------------------------------------
\* Spec: the events dialog fills the EventsManager, then MonteCarloWorker.run
\* constructs the engine and runs it
\* ---------------------------------------------------------------------------
Det(v) == ParameterRange(None, Some(v), None)

\* <<capital_inicial, aporte_mensal, rentabilidade_anual>> of the inputs
ParameterChoices ==
    { <<Det(0), Det(1), Det(0)>>,
      <<Det(2), Det(-1), Det(0)>>,
      <<Det(2), Det(1), Det(409500)>>,
      <<ParameterRange(Some(-1), None, Some(1)), Det(1), Det(0)>>,
      <<Det(2), ParameterRange(Some(0), Some(1), Some(2)), Det(0)>>,
      <<Det(1), Det(1), ParameterRange(Some(0), Some(0), Some(409500))>>,
      <<ParameterRange(None, None, None), Det(1), Det(0)>> }

StartDates == {<<2025, 1>>, <<2025, 7>>}

EventDates == {<<2025, 1>>, <<2025, 8>>, <<2026, 1>>}

EventAmounts == {<<3, 0>>, <<0, 5>>}

EventChoices ==
    {ExtraordinaryEvent(d, a[1], a[2]) : d \in EventDates, a \in EventAmounts}

\* the highest monthly growth factor the rate of the inputs can take
TopGrowth(rent) ==
    OnePlusMonthlyRate(IF IsProbabilistic(rent) THEN Val(rent.max_value)
                       ELSE Val(rent.deterministic))

\* the inputs of the model; a doubling rate is kept to one year so that
\* every balance, and one hundred times the sum of a month's balances,
\* stays a 32-bit integer
EngineInputs ==
    {in \in {MonteCarloInput(p[1], p[2], p[3], y, 0, n, s) :
                p \in ParameterChoices, y \in 0..MaxYears,
                n \in {MinSimulations - 1, MinSimulations}, s \in StartDates} :
        TopGrowth(in.rentabilidade_anual) < 2 \/ in.periodo_anos <= 1}

DrawKinds == {1, 2}

\* the arrays numpy may draw for a probabilistic range: every value lies in
\* [min_value, max_value]; the model draws one value per kind and repeats
\* the kinds along the array
DrawSpace(p, values) ==
    IF ~IsProbabilistic(p) THEN {0}
    ELSE {v \in values : Val(p.min_value) <= v /\ v <= Val(p.max_value)}

DrawnArrays(p, values, n) ==
    {[i \in 1..n |-> pat[((i - 1) % Cardinality(DrawKinds)) + 1]] :
        pat \in [DrawKinds -> DrawSpace(p, values)]}

Amounts == -1..MaxValue

Init ==
    /\ inputs \in EngineInputs
    /\ events = <<>>
    /\ pc = "idle"
    /\ signals = <<>>
    /\ raised = NotStarted
    /\ samples = NotStarted
    /\ result = NotStarted
    /\ range = NotStarted /\ range_result = NotStarted
    /\ validation = NotStarted
    /\ simulated = NotStarted
    /\ arrays = NotStarted /\ scenarios = <<>>
    /\ call = NotStarted /\ frame = NotStarted
    /\ IdleModules

\* EventsManager.add_event
AddEvent ==
    /\ pc = "idle"
    /\ simulated = NotStarted
    /\ Len(events) < MaxEvents
    /\ \E e \in EventChoices : events' = AddEventSorted(events, e)
    /\ UNCHANGED <<moduleVars, callVars, rangeVars, validateVars, inputs, pc, signals, raised,
                   samples, result, reprVars, simVars>>

\* MonteCarloWorker.run up to the constructor call
StartWorker ==
    /\ pc = "idle"
    /\ simulated = NotStarted
    /\ signals' = Append(signals, <<"progress", 10>>)
    /\ pc' = "construct"
    /\ UNCHANGED <<moduleVars, callVars, rangeVars, validateVars, inputs, events, raised, samples,
                   result, reprVars, simVars>>

\* MonteCarloEngine(inputs) raises ValueError; the worker's except emits error
ConstructRaises ==
    /\ pc = "construct"
    /\ EngineInit(inputs).raises
    /\ raised' = [state |-> "constructed"] @@ EngineInit(inputs)
    /\ signals' = Append(signals, <<"error", EngineInit(inputs).errors>>)
    /\ pc' = "failed"
    /\ UNCHANGED <<moduleVars, callVars, rangeVars, validateVars, inputs, events, samples, result,
                   reprVars, simVars>>

\* MonteCarloEngine(inputs) returns; the worker reports progress 30
ConstructReturns ==
    /\ pc = "construct"
    /\ ~EngineInit(inputs).raises
    /\ raised' = [state |-> "constructed"] @@ EngineInit(inputs)
    /\ signals' = Append(signals, <<"progress", 30>>)
    /\ pc' = "run"
    /\ UNCHANGED <<moduleVars, callVars, rangeVars, validateVars, inputs, events, samples, result,
                   reprVars, simVars>>

\* engine.run(), then finished(result) without the progress of 100
RunEngine_NoFinalProgress ==
    /\ pc = "run"
    /\ \E c \in DrawnArrays(inputs.capital_inicial, Amounts, inputs.n_simulations),
          a \in DrawnArrays(inputs.aporte_mensal, Amounts, inputs.n_simulations),
          r \in DrawnArrays(inputs.rentabilidade_anual, ExactRates,
                            inputs.n_simulations) :
          LET draws == [capitals |-> c, monthlies |-> a, rates |-> r]
          IN  /\ samples' = draws
              /\ result' = [state |-> "returned"] @@ Run(inputs, events, draws)
    /\ signals' = Append(signals, <<"finished">>)
    /\ pc' = "done"
    /\ UNCHANGED <<moduleVars, callVars, rangeVars, validateVars, inputs, events, raised, reprVars, simVars>>

\* engine.run(), then progress 100 and finished(result)
RunEngine ==
    /\ pc = "run"
    /\ \E c \in DrawnArrays(inputs.capital_inicial, Amounts, inputs.n_simulations),
          a \in DrawnArrays(inputs.aporte_mensal, Amounts, inputs.n_simulations),
          r \in DrawnArrays(inputs.rentabilidade_anual, ExactRates,
                            inputs.n_simulations) :
          LET draws == [capitals |-> c, monthlies |-> a, rates |-> r]
          IN  /\ samples' = draws
              /\ result' = [state |-> "returned"] @@ Run(inputs, events, draws)
    /\ signals' = signals \o << <<"progress", 100>>, <<"finished">> >>
    /\ pc' = "done"
    /\ UNCHANGED <<moduleVars, callVars, rangeVars, validateVars, inputs, events, raised, reprVars, simVars>>

\* engine.run() raises (an allocation of the n_simulations x months matrix
\* that fails, an arithmetic error): the worker's except clause emits error
RunRaises ==
    /\ pc = "run"
    /\ signals' = Append(signals, <<"error", <<"run">> >>)
    /\ pc' = "run_failed"
    /\ UNCHANGED <<moduleVars, callVars, rangeVars, validateVars, inputs, events, raised,
                   samples, result, reprVars, simVars>>

\* a direct call of apply_events_to_simulation with the deterministic values
\* of the inputs and the same EventsManager; a caller uses either this
\* function or the worker
CallApplyEvents ==
    /\ pc = "idle"
    /\ simulated = NotStarted
    /\ \A p \in {inputs.capital_inicial, inputs.aporte_mensal,
                 inputs.rentabilidade_anual} : ParameterRangeValidate(p)[1]
    /\ LET args == [initial_balance |-> GetDeterministicValue(inputs.capital_inicial),
                    monthly_contribution |-> GetDeterministicValue(inputs.aporte_mensal),
                    monthly_rate |-> OnePlusMonthlyRate(
                        GetDeterministicValue(inputs.rentabilidade_anual)) - 1,
                    months |-> inputs.periodo_anos * MonthsPerYear,
                    events |-> events,
                    start_date |-> inputs.start_date]
       IN  simulated' = [state |-> "returned", args |-> args] @@
               ApplyEventsToSimulation(args.initial_balance,
                   args.monthly_contribution, args.monthly_rate, args.months,
                   args.events, args.start_date)
    /\ UNCHANGED <<moduleVars, callVars, rangeVars, validateVars, engineVars, reprVars>>

Next ==
    \/ AddEvent
    \/ CallApplyEvents
    \/ StartWorker
    \/ ConstructRaises
    \/ ConstructReturns
    \/ RunEngine
    \/ RunRaises

Spec == Init /\ [][Next]_vars

\* ---------------------------------------------------------------------------
\* Claims about the events-aware recurrence
\* ---------------------------------------------------------------------------
Returned == result # NotStarted

TotalMonths == inputs.periodo_anos * MonthsPerYear

\* C1: if run() reports insolvency_month = k, balances_deterministic[t] = 0
\* for every month t with k <= t <= total_months.
C1_InsolvencyAbsorbing ==
    (Returned /\ result.insolvency_month # None) =>
        \A t \in Val(result.insolvency_month)..TotalMonths :
            result.balances_deterministic[t] = 0

\* the balance of month m after interest, the regular contribution and the
\* month's consolidated deposit, along the trajectory bal
Funded(bal, m, growth, monthly, monthly_events) ==
    bal[m - 1] * growth + monthly
    + (IF m \in DOMAIN monthly_events THEN monthly_events[m][1] ELSE 0)

Withdrawal(m, monthly_events) ==
    IF m \in DOMAIN monthly_events THEN monthly_events[m][2] ELSE 0

Earliest(S) == IF S = {} THEN None ELSE Some(CHOOSE m \in S : \A k \in S : m <= k)

\* months of the engine's deterministic trajectory whose withdrawal exceeds
\* the funded balance
EngineShortMonths ==
    {m \in 1..TotalMonths :
        /\ Withdrawal(m, result.monthly_events) > 0
        /\ Withdrawal(m, result.monthly_events) >
               Funded(result.balances_deterministic, m,
                      OnePlusMonthlyRate(GetDeterministicValue(inputs.rentabilidade_anual)),
                      GetDeterministicValue(inputs.aporte_mensal),
                      result.monthly_events)}

\* months of the engine's deterministic trajectory whose funded balance is
\* negative
EngineNegativeMonths ==
    {m \in 1..TotalMonths :
        Funded(result.balances_deterministic, m,
               OnePlusMonthlyRate(GetDeterministicValue(inputs.rentabilidade_anual)),
               GetDeterministicValue(inputs.aporte_mensal),
               result.monthly_events) < 0}

SimulatedEvents ==
    GetMonthlyConsolidated(simulated.args.events, simulated.args.start_date,
                           simulated.args.months)

\* months of the simulated trajectory, up to the recorded insolvency, whose
\* withdrawal exceeds the funded balance
SimulatedShortMonths ==
    {m \in 1..simulated.args.months :
        /\ Withdrawal(m, SimulatedEvents) > 0
        /\ Withdrawal(m, SimulatedEvents) >
               Funded(simulated.balances, m, 1 + simulated.args.monthly_rate,
                      simulated.args.monthly_contribution, SimulatedEvents)}

SimulatedRecord ==
    /\ Len(simulated.insolvencies) <= 1
    /\ IF SimulatedShortMonths = {} THEN simulated.insolvencies = <<>>
       ELSE /\ Len(simulated.insolvencies) = 1
            /\ Some(simulated.insolvencies[1].month) = Earliest(SimulatedShortMonths)

\* C2 as claimed: in both functions the record is the earliest month whose
\* consolidated withdrawal exceeds the balance after interest, contribution
\* and deposit, and there is no record without such a month.
C2_FirstShortfallOnly ==
    /\ Returned => result.insolvency_month = Earliest(EngineShortMonths)
    /\ simulated # NotStarted => SimulatedRecord

\* C2 (amended): at most one insolvency is recorded and later failing
\* withdrawals neither replace nor add to it.  In apply_events_to_simulation
\* it is the earliest month whose withdrawal exceeds the balance after
\* interest, contribution and deposit; in _calculate_with_events it is the
\* earliest month in which that balance is below the month's withdrawal or
\* below zero.
C2_FirstShortfallOrNegative ==
    /\ Returned => result.insolvency_month
                       = Earliest(EngineShortMonths \cup EngineNegativeMonths)
    /\ simulated # NotStarted => SimulatedRecord

C2_Witness ==
    /\ Returned
    /\ result.insolvency_month # None
    /\ Cardinality(EngineShortMonths) >= 2
    /\ EngineNegativeMonths # {}

\* C19: apply_events_to_simulation: once some month k has a consolidated
\* withdrawal greater than the balance after interest, contribution and that
\* month's deposit, balances[t] = 0 for every t >= k whatever contributions
\* or deposits come later, and exactly one InsolvencyEvent, with month = k,
\* is returned.
C19_SimulationTerminal ==
    (simulated # NotStarted /\ SimulatedShortMonths # {}) =>
        LET k == Val(Earliest(SimulatedShortMonths))
        IN  /\ \A t \in k..simulated.args.months : simulated.balances[t] = 0
            /\ Len(simulated.insolvencies) = 1
            /\ simulated.insolvencies[1].month = k
            /\ simulated.insolvencies[1].withdrawal_attempted
                   = Withdrawal(k, SimulatedEvents)

C19_Witness ==
    /\ simulated # NotStarted
    /\ Len(simulated.insolvencies) = 1
    /\ simulated.args.monthly_contribution > 0
    /\ \E m \in DOMAIN SimulatedEvents :
           /\ m > simulated.insolvencies[1].month
           /\ SimulatedEvents[m][1] > 0
    /\ simulated.balances[simulated.insolvencies[1].month - 1] > 0

\* the balance a month is left with when the steps are taken in the order
\* interest, regular contribution, deposit, withdrawal: the withdrawal is
\* paid exactly when it does not exceed the funded balance
AfterWithdrawal(funded, withdrawal) ==
    IF withdrawal > 0
        THEN (IF withdrawal <= funded THEN funded - withdrawal ELSE 0)
    ELSE funded

EngineFunded(m) ==
    Funded(result.balances_deterministic, m,
           OnePlusMonthlyRate(GetDeterministicValue(inputs.rentabilidade_anual)),
           GetDeterministicValue(inputs.aporte_mensal), result.monthly_events)

SimulatedFunded(m) ==
    Funded(simulated.balances, m, 1 + simulated.args.monthly_rate,
           simulated.args.monthly_contribution, SimulatedEvents)

\* months of the simulation on which the recurrence is applied: those up to
\* the recorded insolvency
SimulatedActiveMonths ==
    {m \in 1..simulated.args.months :
        simulated.insolvencies = <<>> \/ m <= simulated.insolvencies[1].month}

\* C21: in each month m >= 1 of _calculate_with_events and of
\* apply_events_to_simulation the balance is the previous balance with
\* interest, plus the regular contribution, plus the month's deposit, minus
\* the month's withdrawal when that withdrawal is <= the balance after the
\* deposit (0 otherwise); a withdrawal equal to that balance leaves 0 and
\* records no insolvency for the month.
C21_StepOrder ==
    /\ Returned =>
           \A m \in 1..TotalMonths :
               LET w == Withdrawal(m, result.monthly_events)
               IN  /\ result.balances_deterministic[m]
                          = Max(0, AfterWithdrawal(EngineFunded(m), w))
                   /\ (w > 0 /\ w = EngineFunded(m)) =>
                          /\ result.balances_deterministic[m] = 0
                          /\ result.insolvency_month # Some(m)
    /\ simulated # NotStarted =>
           \A m \in SimulatedActiveMonths :
               LET w == Withdrawal(m, SimulatedEvents)
               IN  /\ simulated.balances[m] = AfterWithdrawal(SimulatedFunded(m), w)
                   /\ (w > 0 /\ w = SimulatedFunded(m)) =>
                          /\ simulated.balances[m] = 0
                          /\ \A i \in DOMAIN simulated.insolvencies :
                                 simulated.insolvencies[i].month # m

\* a month of the engine's trajectory with a deposit and a withdrawal equal
\* to the balance after that deposit
C21_Witness ==
    /\ Returned
    /\ \E m \in (1..TotalMonths) \cap DOMAIN result.monthly_events :
           /\ result.monthly_events[m][1] > 0
           /\ result.monthly_events[m][2] > 0
           /\ result.monthly_events[m][2] = EngineFunded(m)

\* C25: every extraordinary deposit counted in result.total_invested, and
\* every withdrawal added back in total_interest_det, was applied to
\* balances_deterministic: each month key of the consolidated map, relative
\* month 0 included, is processed by _calculate_with_events (a key m >= 1 by
\* the step of month m, key 0 on the opening balance).
C25_CountedEventsApplied ==
    Returned =>
        \A k \in DOMAIN result.monthly_events :
            IF k >= 1
                THEN /\ k <= TotalMonths
                     /\ result.balances_deterministic[k]
                            = Max(0, AfterWithdrawal(EngineFunded(k),
                                                     result.monthly_events[k][2]))
            ELSE result.balances_deterministic[0]
                     = Max(0, AfterWithdrawal(
                                  GetDeterministicValue(inputs.capital_inicial)
                                      + result.monthly_events[0][1],
                                  result.monthly_events[0][2]))

\* the deposits that balance_deterministic of row y includes: those of the
\* months whose step ran before or at month 12 * y
IncludedDeposits(y) ==
    LET included == (1..(y * MonthsPerYear)) \cap DOMAIN result.monthly_events
    IN  SumOver(included, [m \in included |-> result.monthly_events[m][1]])

\* C26: in each yearly projection row y, total_invested counts an
\* extraordinary deposit exactly when the deposit is included in the row's
\* balance_deterministic (the balance at month 12 * y): a deposit of month
\* 12 * y itself is counted in row y and deposits of later months are not.
C26_YearlyInvestedMatchesBalance ==
    Returned =>
        \A y \in 0..inputs.periodo_anos :
            result.yearly_projection[y].total_invested
                = GetDeterministicValue(inputs.capital_inicial)
                  + GetDeterministicValue(inputs.aporte_mensal) * y * MonthsPerYear
                  + IncludedDeposits(y)

\* ---------------------------------------------------------------------------
\* Claims about the consolidated events and the totals
\* ---------------------------------------------------------------------------
\* the relative month of an event as the documentation states it
RelativeMonth(e) ==
    (e.date[1] * 12 + e.date[2]) - (inputs.start_date[1] * 12 + inputs.start_date[2])

EventsOfMonth(d) == {i \in 1..Len(events) : RelativeMonth(events[i]) = d}

DepositsOf(I) == SumOver(I, [i \in I |-> events[i].deposit])

WithdrawalsOf(I) == SumOver(I, [i \in I |-> events[i].withdrawal])

InPeriod == {i \in 1..Len(events) :
                0 <= RelativeMonth(events[i]) /\ RelativeMonth(events[i]) < TotalMonths}

\* C5: the map returned by get_monthly_consolidated(start_date, months) has
\* exactly the relative months 0 <= d < months that carry an event as keys,
\* and at d the pair (sum of deposits, sum of withdrawals) of those events.
C5_MonthlyConsolidated ==
    Returned =>
        /\ DOMAIN result.monthly_events
               = {RelativeMonth(events[i]) : i \in InPeriod}
        /\ \A d \in DOMAIN result.monthly_events :
               result.monthly_events[d]
                   = <<DepositsOf(EventsOfMonth(d)), WithdrawalsOf(EventsOfMonth(d))>>

C5_Witness ==
    /\ Returned
    /\ InPeriod # 1..Len(events)
    /\ DOMAIN result.monthly_events # {}

\* C6: total_invested = det_initial + det_monthly * total_months + the sum of
\* the consolidated deposits, and total_interest_det = final_balance_det
\* - total_invested + the sum of the consolidated withdrawals.
C6_Totals ==
    Returned =>
        /\ result.total_invested
               = GetDeterministicValue(inputs.capital_inicial)
                 + GetDeterministicValue(inputs.aporte_mensal) * TotalMonths
                 + DepositsOf(InPeriod)
        /\ result.total_interest_det
               = result.balances_deterministic[TotalMonths]
                 - result.total_invested + WithdrawalsOf(InPeriod)

C6_Witness ==
    /\ Returned
    /\ DepositsOf(InPeriod) > 0
    /\ WithdrawalsOf(InPeriod) > 0

\* C7: row y of the yearly projection carries the consolidated deposits and
\* withdrawals of the simulation months 12y .. 12y+11, so that the rows add
\* up to total_extra_deposits and total_withdrawals.
MonthsOfYear(y) ==
    {m \in DOMAIN result.monthly_events :
        y * MonthsPerYear <= m /\ m < (y + 1) * MonthsPerYear}

C7_YearlyMatchesMonthly ==
    Returned =>
        /\ \A y \in 0..inputs.periodo_anos :
               /\ result.yearly_projection[y].extra_deposits
                      = SumOver(MonthsOfYear(y),
                                [m \in MonthsOfYear(y) |-> result.monthly_events[m][1]])
               /\ result.yearly_projection[y].withdrawals
                      = SumOver(MonthsOfYear(y),
                                [m \in MonthsOfYear(y) |-> result.monthly_events[m][2]])
        /\ SumOver(0..inputs.periodo_anos,
                   [y \in 0..inputs.periodo_anos |->
                       result.yearly_projection[y].extra_deposits])
               = result.total_extra_deposits
        /\ SumOver(0..inputs.periodo_anos,
                   [y \in 0..inputs.periodo_anos |->
                       result.yearly_projection[y].withdrawals])
               = result.total_withdrawals

\* ---------------------------------------------------------------------------
\* Claims about the engine's life cycle and the Monte Carlo rows
\* ---------------------------------------------------------------------------
InputValid ==
    /\ RangeAccepted(inputs.capital_inicial)
    /\ RangeAccepted(inputs.aporte_mensal)
    /\ RangeAccepted(inputs.rentabilidade_anual)
    /\ inputs.periodo_anos > 0
    /\ inputs.n_simulations >= MinSimulations
    /\ inputs.n_simulations <= MaxSimulations

\* C9: the constructor raises on an input that fails validate_all, before
\* any sampling or trajectory computation: run() is reached only with a valid
\* input, and the failed attempt leaves the caller's MonteCarloInput and
\* EventsManager as they were.
C9_NoRunOnInvalidInput ==
    /\ [](/\ pc \in {"run", "done"} => InputValid
          /\ (samples # NotStarted \/ Returned) => InputValid
          /\ pc = "failed" => /\ ~InputValid
                              /\ samples = NotStarted /\ ~Returned)
    /\ [][pc = "construct" => (inputs' = inputs /\ events' = events)]_vars

C9_Witness ==
    /\ pc = "failed"
    /\ raised.raises
    /\ events # <<>>
    /\ signals = << <<"progress", 10>>, <<"error", raised.errors>> >>

\* C24: each MonteCarloWorker.run() emits exactly one terminal signal,
\* finished or error, never both and never neither; finished is preceded by
\* progress 10, 30 and 100 in that order, and a validation failure in the
\* constructor yields progress 10 followed by error only.
IsTerminal(signal) == signal[1] \in {"finished", "error"}

TerminalSignals == {i \in DOMAIN signals : IsTerminal(signals[i])}

RunHasEnded == pc \in {"done", "failed", "run_failed"}

C24_OneTerminalSignal ==
    /\ Cardinality(TerminalSignals) <= 1
    /\ TerminalSignals # {} => (TerminalSignals = {Len(signals)} /\ RunHasEnded)
    /\ RunHasEnded => Cardinality(TerminalSignals) = 1
    /\ (signals # <<>> /\ signals[Len(signals)][1] = "finished") =>
           signals = << <<"progress", 10>>, <<"progress", 30>>,
                        <<"progress", 100>>, <<"finished">> >>
    /\ (raised # NotStarted /\ raised.raises) =>
           signals = << <<"progress", 10>>, <<"error", raised.errors>> >>

C24_Witness ==
    /\ pc = "done"
    /\ Returned
    /\ signals[Len(signals)] = <<"finished">>
    /\ Len(signals) = 4

\* C3: every representative scenario returned by run() is reproduced by the
\* deterministic events-aware trajectory of its own capital, contribution
\* and rate, and every row of the Monte Carlo matrix equals that trajectory
\* of the row's sampled triple month by month.
Scalar(capital, monthly, rate) ==
    CalculateWithEvents(capital, monthly, rate, inputs.periodo_anos,
                        result.monthly_events).balances

SampledTriple(i) ==
    <<Val(result.sampled_capitals)[i], Val(result.sampled_monthlies)[i],
      Val(result.sampled_rates)[i]>>

C3_ScenarioReproducible ==
    (Returned /\ result.has_monte_carlo) =>
        /\ \A k \in DOMAIN result.representative_scenarios :
               LET s == result.representative_scenarios[k]
               IN  Scalar(s.capital_inicial, s.aporte_mensal,
                          s.rentabilidade_anual)[TotalMonths] = s.saldo_final
        /\ \A t \in {SampledTriple(i) : i \in 1..inputs.n_simulations} :
               LET scalar == Scalar(t[1], t[2], t[3])
               IN  /\ MonteCarloRow(t[1], t[2], t[3], TotalMonths,
                                    result.monthly_events) = scalar
                   /\ \A i \in 1..inputs.n_simulations :
                          SampledTriple(i) = t =>
                              Val(result.sampled_final_balances)[i]
                                  = scalar[TotalMonths]

C3_Witness ==
    /\ Returned /\ result.has_monte_carlo
    /\ \E k \in DOMAIN result.representative_scenarios :
           LET s == result.representative_scenarios[k]
           IN  CalculateWithEvents(s.capital_inicial, s.aporte_mensal,
                                   s.rentabilidade_anual, inputs.periodo_anos,
                                   result.monthly_events).insolvency_month # None
    /\ \E i, j \in 1..inputs.n_simulations :
           Val(result.sampled_final_balances)[i]
               # Val(result.sampled_final_balances)[j]

\* C12: every sampled initial capital, monthly contribution and annual rate
\* that enters the recurrence of _calculate_monte_carlo_with_events is >= 0,
\* for any valid range, a range with a negative minimum included.
C12_SamplesNonNegative ==
    (Returned /\ result.has_monte_carlo) =>
        \A i \in 1..inputs.n_simulations :
            /\ Val(result.sampled_capitals)[i] >= 0
            /\ Val(result.sampled_monthlies)[i] >= 0
            /\ Val(result.sampled_rates)[i] >= 0

\* C14: run() sets has_monte_carlo exactly when at least one of the three
\* parameters has both min and max set; when it is false every aggregated
\* series (mean, min, max, P5, P10, P90, P95) equals balances_deterministic
\* month by month, final_balance_mean/min/max equal final_balance_det and
\* representative_scenarios is empty.
BothSet(p) == p.min_value # None /\ p.max_value # None

Series == RunSeries(inputs, events, samples)

SameAsDeterministic(series) ==
    \A m \in 0..TotalMonths :
        series[m] = <<result.balances_deterministic[m], 1>>

C14_MonteCarloFlag ==
    Returned =>
        /\ result.has_monte_carlo
               <=> \/ BothSet(inputs.capital_inicial)
                   \/ BothSet(inputs.aporte_mensal)
                   \/ BothSet(inputs.rentabilidade_anual)
        /\ ~result.has_monte_carlo =>
               /\ SameAsDeterministic(Series.balances_mean)
               /\ SameAsDeterministic(Series.balances_p5)
               /\ SameAsDeterministic(Series.balances_p10)
               /\ SameAsDeterministic(Series.balances_p90)
               /\ SameAsDeterministic(Series.balances_p95)
               /\ Series.balances_min = result.balances_deterministic
               /\ Series.balances_max = result.balances_deterministic
               /\ Series.final_balance_mean = <<result.final_balance_det, 1>>
               /\ Series.final_balance_min = result.final_balance_det
               /\ Series.final_balance_max = result.final_balance_det
               /\ result.representative_scenarios = <<>>
               /\ result.sampled_final_balances = None

C14_Witness ==
    /\ Returned /\ ~result.has_monte_carlo
    /\ result.insolvency_month # None
    /\ result.final_balance_det > 0
    /\ Series.balances_min[TotalMonths] = result.final_balance_det

\* C13: every cell of the matrix built by _calculate_monte_carlo_with_events
\* is >= 0, for every row and every month 0..total_months, month 0 included.
AllBalances ==
    CalculateMonteCarloWithEvents(inputs, result.monthly_events, samples).all_balances

C13_MatrixNonNegative ==
    (Returned /\ result.has_monte_carlo) =>
        \A i \in 1..inputs.n_simulations :
            \A m \in 0..TotalMonths : AllBalances[i][m] >= 0

\* ---------------------------------------------------------------------------
\* SpecRepr: extract_representative_scenarios on arrays of 1..MaxScenarios
\* final balances; row i carries parameters that identify it
\* ---------------------------------------------------------------------------
ArraysOfLength(n) ==
    {[final_balances |-> fb,
      capitals |-> [i \in 1..n |-> IF flip THEN i ELSE n + 1 - i],
      monthlies |-> [i \in 1..n |-> 10 + i],
      rates |-> [i \in 1..n |-> 20 + 2 * i]] :
        fb \in [1..n -> 0..MaxValue], flip \in BOOLEAN}

InitRepr ==
    /\ arrays \in UNION {ArraysOfLength(n) : n \in 1..MaxScenarios}
    /\ scenarios = <<>>
    /\ range = NotStarted /\ range_result = NotStarted
    /\ inputs = NotStarted /\ events = <<>> /\ validation = NotStarted
    /\ pc = "unused" /\ signals = <<>> /\ raised = NotStarted
    /\ samples = NotStarted /\ result = NotStarted
    /\ simulated = NotStarted
    /\ call = NotStarted /\ frame = NotStarted
    /\ IdleModules

Extract ==
    /\ scenarios = <<>>
    /\ scenarios' = ExtractRepresentativeScenarios(
                        arrays.final_balances, arrays.capitals,
                        arrays.monthlies, arrays.rates)
    /\ UNCHANGED <<moduleVars, callVars, rangeVars, validateVars, engineVars, simVars, arrays>>

NextRepr == Extract

SpecRepr == InitRepr /\ [][NextRepr]_vars

\* C4: each of the six entries (P5, P25, P50, P75, P95, mean) carries the
\* capital, contribution, rate and final balance of one and the same index
\* i, and that index minimises |final_balances[i] - target|.
Distance(i, target) == Abs(target[2] * arrays.final_balances[i] - target[1])

Minimises(i, target) ==
    \A j \in DOMAIN arrays.final_balances : Distance(i, target) <= Distance(j, target)

C4_OneRealScenario ==
    scenarios # <<>> =>
        /\ [k \in DOMAIN scenarios |-> scenarios[k].percentile]
               = <<"P5", "P25", "P50", "P75", "P95", "MEDIA">>
        /\ \A k \in DOMAIN scenarios :
               \E i \in DOMAIN arrays.final_balances :
                   /\ Minimises(i, TargetBalance(arrays.final_balances, k))
                   /\ scenarios[k].capital_inicial = arrays.capitals[i]
                   /\ scenarios[k].aporte_mensal = arrays.monthlies[i]
                   /\ scenarios[k].rentabilidade_anual = arrays.rates[i]
                   /\ scenarios[k].saldo_final = arrays.final_balances[i]

\* the target of some entry is an interpolated value that no scenario has,
\* and two entries come from different scenarios
C4_Witness ==
    /\ scenarios # <<>>
    /\ \E k \in DOMAIN scenarios :
           \A i \in DOMAIN arrays.final_balances :
               Distance(i, TargetBalance(arrays.final_balances, k)) > 0
    /\ \E k, l \in DOMAIN scenarios : scenarios[k].aporte_mensal # scenarios[l].aporte_mensal

\* ---------------------------------------------------------------------------
\* statistics.calculate_percentiles
\* ---------------------------------------------------------------------------
\* PercentileStats(): every field at its default
PercentileStats ==
    [p5 |-> 0, p10 |-> 0, p25 |-> 0, p50 |-> 0, p75 |-> 0, p90 |-> 0, p95 |-> 0,
     mean |-> <<0, 1>>, variance |-> <<0, 1>>, min_value |-> 0, max_value |-> 0]

\* int(p * n) for p = q/100; for the seven ranks used and every n up to
\* 200000 the floating-point product truncates to the exact floor
RankIndex(q, n) == (q * n) \div 100

\* np.var(a) as the fraction <<n * sum(a^2) - sum(a)^2, n^2>>
Variance(a) ==
    LET n == Cardinality(DOMAIN a)
        squares == [i \in DOMAIN a |-> a[i] * a[i]]
    IN  <<n * SumRange(squares, 1, n) - SumRange(a, 1, n) * SumRange(a, 1, n),
          n * n>>

\* percentiles read from the array as given, without np.sort
CalculatePercentiles_Unsorted(final_balances) ==
    LET n == Len(final_balances)
        at(q) == final_balances[RankIndex(q, n) + 1]
    IN  IF n = 0 THEN PercentileStats
        ELSE [p5 |-> at(5), p10 |-> at(10), p25 |-> at(25), p50 |-> at(50),
              p75 |-> at(75), p90 |-> at(90), p95 |-> at(95),
              mean |-> Mean(final_balances),
              variance |-> Variance(final_balances),
              min_value |-> Smallest(final_balances),
              max_value |-> Largest(final_balances)]

\* calculate_percentiles(final_balances); std_dev, coef_variation and mode
\* (a square root and a histogram bin centre) are left out of the record
CalculatePercentiles(final_balances) ==
    LET n == Len(final_balances)
        at(q) == KthSmallest(final_balances, RankIndex(q, n))
    IN  IF n = 0 THEN PercentileStats
        ELSE [p5 |-> at(5), p10 |-> at(10), p25 |-> at(25), p50 |-> at(50),
              p75 |-> at(75), p90 |-> at(90), p95 |-> at(95),
              mean |-> Mean(final_balances),
              variance |-> Variance(final_balances),
              min_value |-> Smallest(final_balances),
              max_value |-> Largest(final_balances)]

\* ---------------------------------------------------------------------------
\* SpecPercentiles: calculate_percentiles on every array of 0..MaxScenarios
\* balances
\* ---------------------------------------------------------------------------
BalanceArrays ==
    UNION {[1..n -> Amounts] : n \in 0..MaxScenarios}

InitPercentiles ==
    /\ call \in {[final_balances |-> a] : a \in BalanceArrays}
    /\ frame = NotStarted
    /\ IdleOutsideCall
    /\ IdleModules

CallCalculatePercentiles ==
    /\ frame = NotStarted
    /\ frame' = [state |-> "returned",
                 value |-> CalculatePercentiles(call.final_balances)]
    /\ UNCHANGED <<moduleVars, rangeVars, validateVars, engineVars, reprVars, simVars, call>>

NextPercentiles == CallCalculatePercentiles

SpecPercentiles == InitPercentiles /\ [][NextPercentiles]_vars

\* C15: for a non-empty array calculate_percentiles returns
\* min_value <= p5 <= p10 <= p25 <= p50 <= p75 <= p90 <= p95 <= max_value,
\* each percentile being sorted[floor(p*n)] with an index inside 0..n-1; for
\* an empty array it returns the all-zero PercentileStats.
IsSortedAt(a, k, v) ==
    /\ \E i \in DOMAIN a : a[i] = v
    /\ Cardinality({i \in DOMAIN a : a[i] < v}) <= k
    /\ k < Cardinality({i \in DOMAIN a : a[i] <= v})

C15_PercentilesOrdered ==
    frame # NotStarted =>
        LET a == call.final_balances
            n == Len(a)
            v == frame.value
            read == << <<5, v.p5>>, <<10, v.p10>>, <<25, v.p25>>, <<50, v.p50>>,
                       <<75, v.p75>>, <<90, v.p90>>, <<95, v.p95>> >>
        IN  IF n = 0
                THEN /\ \A j \in 1..Len(read) : read[j][2] = 0
                     /\ v.min_value = 0 /\ v.max_value = 0
                     /\ v.mean[1] = 0 /\ v.variance[1] = 0
            ELSE /\ v.min_value <= v.p5 /\ v.p95 <= v.max_value
                 /\ \A j \in 1..(Len(read) - 1) : read[j][2] <= read[j + 1][2]
                 /\ \A j \in 1..Len(read) :
                        LET k == (read[j][1] * n) \div 100
                        IN  /\ k \in 0..(n - 1)
                            /\ IsSortedAt(a, k, read[j][2])
                 /\ \A i \in 1..n : v.min_value <= a[i] /\ a[i] <= v.max_value

C15_Witness ==
    /\ frame # NotStarted
    /\ Len(call.final_balances) >= 3
    /\ call.final_balances[1] > call.final_balances[Len(call.final_balances)]
    /\ frame.value.p5 < frame.value.p50
    /\ frame.value.p50 < frame.value.p95

\* ---------------------------------------------------------------------------
\* statistics.calculate_risk_metrics
\* ---------------------------------------------------------------------------
\* RiskMetrics(): every field at its default; ratios are fractions
RiskMetrics ==
    [prob_success |-> <<0, 1>>, prob_ruin |-> <<0, 1>>, var_95 |-> <<0, 1>>,
     cvar_95 |-> <<0, 1>>, risk_return_ratio |-> <<0, 1>>]

\* float('inf')
Infinity == <<1, 0>>

\* np.sum(a >= bound): the number of entries at or above the bound
CountAtLeast(a, bound) == Cardinality({i \in DOMAIN a : a[i] >= bound})

\* np.sum(a < bound): the number of entries strictly below the bound
CountBelow(a, bound) == Cardinality({i \in DOMAIN a : a[i] < bound})

\* the metrics with the ruin comparison of the results window (<=)
CalculateRiskMetrics_InclusiveRuin(final_balances, meta, capital_inicial, aporte_mensal, periodo_anos) ==
    LET n == Len(final_balances)
    IN  IF n = 0 THEN RiskMetrics
        ELSE [RiskMetrics EXCEPT
                 !.prob_success = <<100 * CountAtLeast(final_balances, meta), n>>,
                 !.prob_ruin = <<100 * Cardinality({i \in 1..n : final_balances[i] <= capital_inicial}), n>>]

\* calculate_risk_metrics(final_balances, meta, capital_inicial,
\* aporte_mensal, periodo_anos); sharpe_ratio and volatility (a fractional
\* power and a square root) are left out of the record
CalculateRiskMetrics(final_balances, meta, capital_inicial, aporte_mensal, periodo_anos) ==
    LET n == Len(final_balances)
        meses == periodo_anos * MonthsPerYear
        capital_total_investido == capital_inicial + aporte_mensal * meses
        saldo_medio == Mean(final_balances)
        p5 == Percentile(final_balances, 5)
        \* saldo_medio - p5 over the denominator 100 * n
        var_95 == Max(0, 100 * saldo_medio[1] - n * p5[1])
        worst == {i \in 1..n : 100 * final_balances[i] <= p5[1]}
        worst_sum == SumOver(worst, final_balances)
        worst_n == Cardinality(worst)
        \* saldo_medio - worst_mean over the denominator n * worst_n
        cvar_95 == IF worst_n > 0
                       THEN <<Max(0, saldo_medio[1] * worst_n - worst_sum * n),
                              n * worst_n>>
                   ELSE <<var_95, 100 * n>>
        \* ganho_esperado over the denominator n
        ganho_esperado == saldo_medio[1] - n * capital_total_investido
    IN  IF n = 0 THEN RiskMetrics
        ELSE [prob_success |-> <<100 * CountAtLeast(final_balances, meta), n>>,
              prob_ruin |-> <<100 * CountBelow(final_balances, capital_inicial), n>>,
              var_95 |-> <<var_95, 100 * n>>,
              cvar_95 |-> cvar_95,
              risk_return_ratio |->
                  IF ganho_esperado > 0 THEN <<var_95, 100 * ganho_esperado>>
                  ELSE IF var_95 > 0 THEN Infinity ELSE <<0, 1>>]

\* ---------------------------------------------------------------------------
\* SpecRisk: calculate_risk_metrics on every array of 0..MaxScenarios
\* balances, with a goal and a capital inside the range of the balances
\* ---------------------------------------------------------------------------
InitRisk ==
    /\ call \in {[final_balances |-> a, meta |-> g, capital_inicial |-> c,
                  aporte_mensal |-> m, periodo_anos |-> 1] :
                    a \in BalanceArrays, g \in 0..MaxValue, c \in 0..MaxValue,
                    m \in {0, 1}}
    /\ frame = NotStarted
    /\ IdleOutsideCall
    /\ IdleModules

CallCalculateRiskMetrics ==
    /\ frame = NotStarted
    /\ frame' = [state |-> "returned",
                 value |-> CalculateRiskMetrics(
                               call.final_balances, call.meta,
                               call.capital_inicial, call.aporte_mensal,
                               call.periodo_anos)]
    /\ UNCHANGED <<moduleVars, rangeVars, validateVars, engineVars, reprVars, simVars, call>>

NextRisk == CallCalculateRiskMetrics

SpecRisk == InitRisk /\ [][NextRisk]_vars

\* C16: calculate_risk_metrics returns
\* prob_success = 100 * |{i : final[i] >= meta}| / n and
\* prob_ruin = 100 * |{i : final[i] < capital}| / n with a strict comparison
\* (a balance equal to the capital is not ruin), capital being the
\* capital_inicial argument; both lie in [0, 100], and for an empty array
\* every metric is 0.
IsPercentOf(fraction, count, n) ==
    /\ fraction[2] > 0
    /\ fraction[1] * n = 100 * count * fraction[2]
    /\ 0 <= fraction[1] /\ fraction[1] <= 100 * fraction[2]

C16_RiskProbabilities ==
    frame # NotStarted =>
        LET a == call.final_balances
            n == Len(a)
            v == frame.value
        IN  IF n = 0
                THEN \A f \in DOMAIN v : v[f][1] = 0 /\ v[f][2] > 0
            ELSE /\ IsPercentOf(v.prob_success,
                                Cardinality({i \in 1..n : a[i] >= call.meta}), n)
                 /\ IsPercentOf(v.prob_ruin,
                                Cardinality({i \in 1..n : a[i] < call.capital_inicial}),
                                n)

C16_Witness ==
    /\ frame # NotStarted
    /\ call.aporte_mensal > 0
    /\ \E i, j, k \in DOMAIN call.final_balances :
           /\ call.final_balances[i] = call.capital_inicial
           /\ call.final_balances[j] < call.capital_inicial
           /\ call.final_balances[k] >= call.meta
    /\ frame.value.prob_ruin[1] > 0
    /\ frame.value.prob_ruin[1] < 100 * frame.value.prob_ruin[2]

\* ---------------------------------------------------------------------------
\* statistics.find_implicit_rate
\* ---------------------------------------------------------------------------
\* a rate is an integer number of units of 2^-RateBits percent
RateUnit == Pow(2, RateBits)

\* r_min + r_max without the division by two
Midpoint_Sum(r_min, r_max) == r_min + r_max

\* (r_min + r_max) / 2: exact when the sum is even in rate units, otherwise
\* rounded to the neighbour with an even last digit, as floating point does
Midpoint(r_min, r_max) ==
    LET sum == r_min + r_max
        lo == sum \div 2
    IN  IF sum % 2 = 0 THEN lo
        ELSE IF lo % 2 = 0 THEN lo ELSE lo + 1

\* simulate_deterministic(rate_annual) for aporte_mensal = 0, as a fraction:
\* compounding the twelfth root of (1 + rate/100) over 12 * periodo_anos
\* months is capital * (1 + rate/100) ^ periodo_anos
SimulateDeterministic(rate_annual, capital_inicial, periodo_anos) ==
    LET whole == 100 * RateUnit
    IN  <<capital_inicial * Pow(whole + rate_annual, periodo_anos),
          Pow(whole, periodo_anos)>>

\* abs(simulated_balance - target_balance) < tolerance
WithinTolerance(simulated_balance, target_balance, tolerance) ==
    Abs(simulated_balance[1] - target_balance * simulated_balance[2])
        < tolerance * simulated_balance[2]

\* simulated_balance < target_balance
BelowTarget(simulated_balance, target_balance) ==
    simulated_balance[1] < target_balance * simulated_balance[2]

\* ---------------------------------------------------------------------------
\* SpecBisect: one call of find_implicit_rate, one loop iteration per step;
\* a running loop keeps running, hence the fairness condition
\* ---------------------------------------------------------------------------
TargetChoices == {0, 110, 117, 125, 1000}

ToleranceChoices == {0, 1, 5}

InitBisect ==
    /\ call \in {[target_balance |-> t, capital_inicial |-> 100,
                  aporte_mensal |-> 0, periodo_anos |-> y, tolerance |-> tol,
                  max_iterations |-> n] :
                    t \in TargetChoices, y \in {1, 2}, tol \in ToleranceChoices,
                    n \in {0, 1, MaxIterations}}
    /\ frame = NotStarted
    /\ IdleOutsideCall
    /\ IdleModules

\* entry of find_implicit_rate: r_min, r_max = -30.0, 50.0
EnterFindImplicitRate ==
    /\ frame = NotStarted
    /\ frame' = [state |-> "loop", r_min |-> LowRate * RateUnit,
                 r_max |-> HighRate * RateUnit, iteration |-> 0, tried |-> <<>>]
    /\ UNCHANGED <<moduleVars, rangeVars, validateVars, engineVars, reprVars, simVars, call>>

\* one iteration of the for loop; tried lists the midpoints simulated so far
Iterate ==
    /\ frame.state = "loop"
    /\ frame.iteration < call.max_iterations
    /\ LET r_mid == Midpoint(frame.r_min, frame.r_max)
           simulated_balance == SimulateDeterministic(r_mid, call.capital_inicial,
                                                      call.periodo_anos)
           tried == Append(frame.tried, r_mid)
       IN  IF WithinTolerance(simulated_balance, call.target_balance, call.tolerance)
               THEN frame' = [frame EXCEPT !.state = "returned",
                                           !.tried = tried] @@ [value |-> r_mid]
           ELSE IF BelowTarget(simulated_balance, call.target_balance)
               THEN frame' = [frame EXCEPT !.r_min = r_mid,
                                           !.iteration = @ + 1, !.tried = tried]
           ELSE frame' = [frame EXCEPT !.r_max = r_mid,
                                       !.iteration = @ + 1, !.tried = tried]
    /\ UNCHANGED <<moduleVars, rangeVars, validateVars, engineVars, reprVars, simVars, call>>

\* the loop is exhausted: return (r_min + r_max) / 2
Exhausted ==
    /\ frame.state = "loop"
    /\ frame.iteration >= call.max_iterations
    /\ frame' = [frame EXCEPT !.state = "returned"]
                    @@ [value |-> Midpoint(frame.r_min, frame.r_max)]
    /\ UNCHANGED <<moduleVars, rangeVars, validateVars, engineVars, reprVars, simVars, call>>

NextBisect == EnterFindImplicitRate \/ Iterate \/ Exhausted

SpecBisect == InitBisect /\ [][NextBisect]_vars /\ WF_vars(NextBisect)

\* C17: find_implicit_rate terminates after at most max_iterations bisection
\* steps and returns a rate inside [-30, 50]: the first midpoint whose
\* simulated balance is within tolerance of the target, otherwise the
\* midpoint of the final bracket; at every step r_min <= r_max.
Running == frame # NotStarted /\ frame.state = "loop"

Finished == frame # NotStarted /\ frame.state = "returned"

Converges(rate) ==
    WithinTolerance(SimulateDeterministic(rate, call.capital_inicial,
                                          call.periodo_anos),
                    call.target_balance, call.tolerance)

BisectionSound ==
    /\ frame # NotStarted =>
           /\ LowRate * RateUnit <= frame.r_min
           /\ frame.r_min <= frame.r_max
           /\ frame.r_max <= HighRate * RateUnit
           /\ frame.iteration <= Max(0, call.max_iterations)
           /\ Len(frame.tried) <= Max(0, call.max_iterations)
    /\ Finished =>
           /\ frame.r_min <= frame.value /\ frame.value <= frame.r_max
           /\ \A k \in 1..(Len(frame.tried) - 1) : ~Converges(frame.tried[k])
           /\ IF frame.tried # <<>> /\ Converges(frame.tried[Len(frame.tried)])
                  THEN frame.value = frame.tried[Len(frame.tried)]
              ELSE /\ frame.iteration = Max(0, call.max_iterations)
                   /\ 2 * frame.value - (frame.r_min + frame.r_max) \in {-1, 0, 1}

\* the claim as stated: and at every step the bracket width is halved
Halved ==
    (Running /\ frame'.state = "loop") =>
        2 * (frame'.r_max - frame'.r_min) = frame.r_max - frame.r_min

Narrowed ==
    (Running /\ frame'.state = "loop") =>
        LET r_mid == frame'.tried[Len(frame'.tried)]
        IN  /\ frame.r_min <= r_mid /\ r_mid <= frame.r_max
            /\ \/ frame'.r_min = r_mid /\ frame'.r_max = frame.r_max
               \/ frame'.r_max = r_mid /\ frame'.r_min = frame.r_min
            /\ (frame.r_min + frame.r_max) % 2 = 0 =>
                   2 * (frame'.r_max - frame'.r_min) = frame.r_max - frame.r_min

ChoiceMatrices(returns, n_simulations, n_years) ==
    [1..n_simulations -> [1..n_years -> {returns[i] : i \in DOMAIN returns}]]

\* np.random.choice raises ValueError for an empty array when samples are
\* to be taken
ChoiceRaises(returns, n_simulations, n_years) ==
    Len(returns) = 0 /\ n_simulations * n_years > 0

\* ---------------------------------------------------------------------------
\* SpecBootstrap: bootstrap_returns on historical lists of zero, one or two
\* returns
\* ---------------------------------------------------------------------------
HistoricalLists == UNION {[1..n -> 0..MaxValue] : n \in 0..2}

InitBootstrap ==
    /\ call \in {[historical_returns |-> h, n_years |-> y, n_simulations |-> n] :
                    h \in HistoricalLists, y \in 1..MaxYears, n \in {1, 2}}
    /\ frame = NotStarted
    /\ IdleOutsideCall
    /\ IdleModules

\* bootstrap_returns(historical_returns, n_years, n_simulations)
CallBootstrapReturns ==
    /\ frame = NotStarted
    /\ IF ChoiceRaises(call.historical_returns, call.n_simulations, call.n_years)
           THEN frame' = [state |-> "raised", error |-> "ValueError"]
       ELSE \E simulated_returns \in ChoiceMatrices(call.historical_returns,
                                                    call.n_simulations,
                                                    call.n_years) :
                frame' = [state |-> "returned", value |-> simulated_returns]
    /\ UNCHANGED <<moduleVars, rangeVars, validateVars, engineVars, reprVars, simVars, call>>

NextBootstrap == CallBootstrapReturns

SpecBootstrap == InitBootstrap /\ [][NextBootstrap]_vars

\* C18: bootstrap_returns rejects a historical list of fewer than 2 returns,
\* and for a list of 2 or more it returns an n_simulations x n_years matrix
\* whose every entry is one of the supplied returns.
C18_BootstrapNeedsTwoPoints ==
    frame # NotStarted =>
        IF Len(call.historical_returns) < 2 THEN frame.state = "raised"
        ELSE /\ frame.state = "returned"
             /\ DOMAIN frame.value = 1..call.n_simulations
             /\ \A i \in 1..call.n_simulations :
                    /\ DOMAIN frame.value[i] = 1..call.n_years
                    /\ \A y \in 1..call.n_years :
                           \E k \in DOMAIN call.historical_returns :
                               frame.value[i][y] = call.historical_returns[k]

\* ---------------------------------------------------------------------------
\* events.apply_extraordinary_events
\* ---------------------------------------------------------------------------
\* the deposit branch: the deposit is added to its month, and each later
\* month m gets deposits * (g^periods - g^(periods - 1)), g = 1 + monthly_rate
AddDeposit(modified, month, deposits, monthly_rate) ==
    [m \in DOMAIN modified |->
        IF m < month THEN modified[m]
        ELSE IF m = month THEN modified[m] + deposits
        ELSE modified[m] + deposits * Pow(1 + monthly_rate, m - month)
                         - deposits * Pow(1 + monthly_rate, m - month - 1)]

\* the loop over monthly_events.items() from entry i on; items lists the
\* dict's entries <<month, deposits, withdrawals>> in insertion order and
\* modified is indexed from 0
RECURSIVE ApplyFrom(_, _, _, _, _)
ApplyFrom(items, i, monthly_rate, modified, insolvencies) ==
    IF i > Len(items)
        THEN [modified |-> modified, insolvencies |-> insolvencies]
    ELSE LET month == items[i][1]
             deposits == items[i][2]
             withdrawals == items[i][3]
             len == Cardinality(DOMAIN modified)
             deposited == IF deposits > 0
                              THEN AddDeposit(modified, month, deposits, monthly_rate)
                          ELSE modified
         IN  IF month >= len
                 THEN ApplyFrom(items, i + 1, monthly_rate, modified, insolvencies)
             ELSE IF withdrawals > 0 /\ deposited[month] < withdrawals
                 THEN ApplyFrom(items, i + 1, monthly_rate,
                          [m \in DOMAIN modified |->
                              IF m >= month THEN 0 ELSE deposited[m]],
                          Append(insolvencies,
                                 InsolvencyEvent(month, deposited[month], withdrawals)))
             ELSE IF withdrawals > 0
                 THEN ApplyFrom(items, i + 1, monthly_rate,
                          [deposited EXCEPT ![month] = @ - withdrawals],
                          insolvencies)
             ELSE ApplyFrom(items, i + 1, monthly_rate, deposited, insolvencies)

\* apply_extraordinary_events(balances, monthly_events, monthly_rate)
ApplyExtraordinaryEvents(balances, items, monthly_rate) ==
    ApplyFrom(items, 1, monthly_rate, balances, <<>>)

\* ---------------------------------------------------------------------------
\* SpecApply: apply_extraordinary_events on a series of four balances and a
\* dict of up to MaxEvents months, some of them beyond the series
\* ---------------------------------------------------------------------------
SeriesChoices ==
    {[m \in 0..3 |-> MaxValue], [m \in 0..3 |-> 1 + m]}

ItemChoices ==
    {<<m, a[1], a[2]>> : m \in 0..4, a \in EventAmounts \cup {<<1, 1>>}}

\* the entries of a dict have distinct keys
ItemLists ==
    {items \in UNION {[1..n -> ItemChoices] : n \in 0..MaxEvents} :
        \A i, j \in DOMAIN items : i # j => items[i][1] # items[j][1]}

InitApply ==
    /\ call \in {[balances |-> b, monthly_events |-> items, monthly_rate |-> r] :
                    b \in SeriesChoices, items \in ItemLists, r \in {0, 1}}
    /\ frame = NotStarted
    /\ IdleOutsideCall
    /\ IdleModules

CallApplyExtraordinaryEvents ==
    /\ frame = NotStarted
    /\ frame' = [state |-> "returned"] @@
                    ApplyExtraordinaryEvents(call.balances, call.monthly_events,
                                             call.monthly_rate)
    /\ UNCHANGED <<moduleVars, rangeVars, validateVars, engineVars, reprVars, simVars, call>>

NextApply == CallApplyExtraordinaryEvents

SpecApply == InitApply /\ [][NextApply]_vars

\* C20: after apply_extraordinary_events detects an insolvency at month k,
\* the returned series is 0 at every index >= k, events at later months do
\* not change it, and the insolvency list holds that first occurrence only.
C20_SeriesTerminal ==
    (frame # NotStarted /\ frame.insolvencies # <<>>) =>
        LET k == frame.insolvencies[1].month
        IN  /\ \A m \in DOMAIN frame.modified : m >= k => frame.modified[m] = 0
            /\ Len(frame.insolvencies) = 1

\* ---------------------------------------------------------------------------
\* monte_carlo.ParameterRange.sample with a distribution type
\* ---------------------------------------------------------------------------
DistributionType == {"normal", "uniform", "triangular"}

\* (min_value + max_value) / 2 as the fraction <<numerator, denominator>>
Midrange(p) == <<Val(p.min_value) + Val(p.max_value), 2>>

\* `self.deterministic if self.deterministic else (min + max) / 2`: the
\* condition is the truth value of the float, false for None and for 0.0
TriangularMode(p) ==
    IF p.deterministic # None /\ Val(p.deterministic) # 0
        THEN <<Val(p.deterministic), 1>>
    ELSE Midrange(p)

\* the arrays of n_samples values numpy may draw inside [min_value, max_value]
DrawsWithin(p, n_samples) ==
    [1..n_samples -> Val(p.min_value)..Val(p.max_value)]

\* sample(n_samples, distribution) with the drawn array; mode is the second
\* argument handed to np.random.triangular, None on the other paths
SampleWith(p, n_samples, distribution, drawn) ==
    IF ~IsProbabilistic(p)
        THEN [samples |-> [i \in 1..n_samples |-> GetDeterministicValue(p)],
              mode |-> None]
    ELSE IF distribution = "triangular"
        THEN [samples |-> drawn, mode |-> Some(TriangularMode(p))]
    ELSE [samples |-> drawn, mode |-> None]

\* ---------------------------------------------------------------------------
\* SpecSample: sample() on every range that passes validate()
\* ---------------------------------------------------------------------------
ValidRanges == {p \in AllRanges : ParameterRangeValidate(p)[1]}

InitSample ==
    /\ call \in {[range |-> p, n_samples |-> n, distribution |-> d] :
                    p \in ValidRanges, n \in 1..2, d \in DistributionType}
    /\ frame = NotStarted
    /\ IdleOutsideCall
    /\ IdleModules

CallSample ==
    /\ frame = NotStarted
    /\ \E drawn \in (IF IsProbabilistic(call.range)
                         THEN DrawsWithin(call.range, call.n_samples)
                     ELSE {<<>>}) :
           frame' = [state |-> "returned"] @@
                        SampleWith(call.range, call.n_samples, call.distribution, drawn)
    /\ UNCHANGED <<moduleVars, rangeVars, validateVars, engineVars, reprVars, simVars, call>>

NextSample == CallSample

SpecSample == InitSample /\ [][NextSample]_vars

SameFraction(a, b) == a[1] * b[2] = b[1] * a[2]

\* C22: with the TRIANGULAR distribution sample() uses mode = deterministic
\* whenever deterministic is set, deterministic = 0 included, and the
\* midpoint (min + max) / 2 only when deterministic is None.
C22_TriangularMode ==
    (frame # NotStarted /\ call.distribution = "triangular"
        /\ IsProbabilistic(call.range)) =>
        /\ frame.mode # None
        /\ SameFraction(Val(frame.mode),
               IF call.range.deterministic # None
                   THEN <<Val(call.range.deterministic), 1>>
               ELSE Midrange(call.range))

\* ---------------------------------------------------------------------------
\* statistics: the CDI rate cache (get_risk_free_rate, get_cdi_info,
\* clear_cdi_cache).  Rates are in percent, times in hours.
\* ---------------------------------------------------------------------------
\* the module globals after import
CdiGlobals == [cached_rate |-> None, last_fetch |-> None, source |-> "fallback"]

\* get_risk_free_rate with the TTL comparison `cache_age <= 86400`
GetRiskFreeRate_InclusiveAge(globals, at, force_refresh, fallback_rate, fetch, manual) ==
    IF /\ ~force_refresh /\ globals.cached_rate # None /\ globals.last_fetch # None
       /\ at - Val(globals.last_fetch) <= CacheHours
        THEN [globals |-> globals, rate |-> Val(globals.cached_rate), tried |-> <<>>]
    ELSE IF fetch # None
        THEN [globals |-> [cached_rate |-> fetch, last_fetch |-> Some(at), source |-> "b3"],
              rate |-> Val(fetch), tried |-> <<"fetch">>]
    ELSE IF manual # None /\ Val(manual) # None
        THEN [globals |-> [cached_rate |-> Val(manual), last_fetch |-> Some(at),
                           source |-> "manual"],
              rate |-> Val(Val(manual)), tried |-> <<"fetch", "manual">>]
    ELSE [globals |-> [globals EXCEPT !.source = "fallback"],
          rate |-> fallback_rate,
          tried |-> IF manual # None THEN <<"fetch", "manual", "fallback">>
                    ELSE <<"fetch", "fallback">>]

\* get_risk_free_rate(force_refresh, fallback_rate, on_manual_input_needed)
\* at time `at`; fetch is what fetch_cdi_rate_from_bcb returns (None on
\* failure), manual is None without a callback and otherwise holds what the
\* callback returns; tried lists the sources consulted, in order
GetRiskFreeRate(globals, at, force_refresh, fallback_rate, fetch, manual) ==
    IF /\ ~force_refresh /\ globals.cached_rate # None /\ globals.last_fetch # None
       /\ at - Val(globals.last_fetch) < CacheHours
        THEN [globals |-> globals, rate |-> Val(globals.cached_rate), tried |-> <<>>]
    ELSE IF fetch # None
        THEN [globals |-> [cached_rate |-> fetch, last_fetch |-> Some(at), source |-> "b3"],
              rate |-> Val(fetch), tried |-> <<"fetch">>]
    ELSE IF manual # None /\ Val(manual) # None
        THEN [globals |-> [cached_rate |-> Val(manual), last_fetch |-> Some(at),
                           source |-> "manual"],
              rate |-> Val(Val(manual)), tried |-> <<"fetch", "manual">>]
    ELSE [globals |-> [globals EXCEPT !.source = "fallback"],
          rate |-> fallback_rate,
          tried |-> IF manual # None THEN <<"fetch", "manual", "fallback">>
                    ELSE <<"fetch", "fallback">>]

\* get_cdi_info(): the rate and the source of the returned dict
GetCdiInfo(globals) ==
    [rate |-> IF globals.cached_rate # None THEN Val(globals.cached_rate)
              ELSE DefaultRate,
     source |-> globals.source]

\* ---------------------------------------------------------------------------
\* SpecCdi: calls of the three functions as the clock advances
\* ---------------------------------------------------------------------------
\* rates the fetch may return and rates the user may type; the two sets are
\* disjoint so that a reported rate tells where it came from
FetchedRates == {11, 12}

ManualRates == {13}

FallbackRates == {DefaultRate, 9}

ClockSteps == {12, 23}

InitCdi ==
    /\ cdi = CdiGlobals
    /\ now = 0
    /\ workers = <<>>
    /\ call = NotStarted /\ frame = NotStarted
    /\ IdleOutsideCall

CallGetRiskFreeRate ==
    \E force_refresh \in BOOLEAN, fallback_rate \in FallbackRates,
       fetch \in {None} \cup {Some(r) : r \in FetchedRates},
       manual \in {None, Some(None)} \cup {Some(Some(r)) : r \in ManualRates} :
        LET r == GetRiskFreeRate(cdi, now, force_refresh, fallback_rate, fetch, manual)
        IN  /\ call' = [function |-> "get_risk_free_rate",
                        force_refresh |-> force_refresh,
                        fallback_rate |-> fallback_rate,
                        fetch |-> fetch, manual |-> manual,
                        globals |-> cdi, at |-> now]
            /\ frame' = [state |-> "returned", rate |-> r.rate, tried |-> r.tried]
            /\ cdi' = r.globals
            /\ UNCHANGED <<now, workers, rangeVars, validateVars, engineVars,
                           reprVars, simVars>>

CallGetCdiInfo ==
    /\ call' = [function |-> "get_cdi_info"]
    /\ frame' = [state |-> "returned"] @@ GetCdiInfo(cdi)
    /\ UNCHANGED <<moduleVars, rangeVars, validateVars, engineVars, reprVars, simVars>>

ClearCdiCache ==
    /\ cdi' = CdiGlobals
    /\ call' = [function |-> "clear_cdi_cache"]
    /\ frame' = [state |-> "returned"]
    /\ UNCHANGED <<now, workers, rangeVars, validateVars, engineVars, reprVars,
                   simVars>>

Tick ==
    /\ \E d \in ClockSteps : now + d <= MaxHours /\ now' = now + d
    /\ UNCHANGED <<cdi, workers, callVars, rangeVars, validateVars, engineVars,
                   reprVars, simVars>>

NextCdi ==
    \/ CallGetRiskFreeRate
    \/ CallGetCdiInfo
    \/ ClearCdiCache
    \/ Tick

SpecCdi == InitCdi /\ [][NextCdi]_vars

RateCallReturned == call # NotStarted /\ call.function = "get_risk_free_rate"

\* the cache of the call held a rate stored less than 24 hours before
CacheWasFresh ==
    /\ call.globals.cached_rate # None /\ call.globals.last_fetch # None
    /\ call.at - Val(call.globals.last_fetch) < CacheHours

\* C23: get_risk_free_rate returns the cached rate without invoking the
\* fetch whenever a rate was cached less than 24 hours ago and
\* force_refresh is false; with force_refresh true, an empty cache or a cache
\* of 24 hours or older it tries the fetch, then the manual-input callback,
\* then the fallback rate, and the fallback rate is never stored in the
\* cache.
C23_CacheThenFetchManualFallback ==
    RateCallReturned =>
        IF ~call.force_refresh /\ CacheWasFresh
            THEN /\ frame.tried = <<>>
                 /\ frame.rate = Val(call.globals.cached_rate)
                 /\ cdi = call.globals
        ELSE /\ frame.tried # <<>> /\ frame.tried[1] = "fetch"
             /\ IF call.fetch # None
                    THEN frame.tried = <<"fetch">> /\ frame.rate = Val(call.fetch)
                ELSE IF call.manual # None /\ Val(call.manual) # None
                    THEN /\ frame.tried = <<"fetch", "manual">>
                         /\ frame.rate = Val(Val(call.manual))
                ELSE /\ frame.tried[Len(frame.tried)] = "fallback"
                     /\ (call.manual # None) => frame.tried[2] = "manual"
                     /\ frame.rate = call.fallback_rate
                     /\ cdi.cached_rate = call.globals.cached_rate
                     /\ cdi.last_fetch = call.globals.last_fetch

\* a call on a cache exactly 24 hours old that falls through the failed
\* fetch and the callback to the fallback rate
C23_Witness ==
    /\ RateCallReturned
    /\ ~call.force_refresh
    /\ call.globals.cached_rate # None
    /\ call.at - Val(call.globals.last_fetch) = CacheHours
    /\ frame.tried = <<"fetch", "manual", "fallback">>

\* C27: after any sequence of get_risk_free_rate and clear_cdi_cache calls,
\* the source reported by get_cdi_info matches the origin of the reported
\* rate: 'b3' or 'manual' only when the rate was obtained that way, and
\* 'fallback' only when the rate is not a cached fetched or manual value.
C27_SourceMatchesRate ==
    (call # NotStarted /\ call.function = "get_cdi_info") =>
        /\ frame.source = "b3" => frame.rate \in FetchedRates
        /\ frame.source = "manual" => frame.rate \in ManualRates
        /\ frame.source = "fallback" => frame.rate \notin FetchedRates \cup ManualRates

\* ---------------------------------------------------------------------------
\* worker.SimulationWorker: run() on a thread-pool thread, cancel() on the UI
\* thread.  Each action is one step of one thread; the steps of run() are
\* split where the other thread can be scheduled in between.
\* ---------------------------------------------------------------------------
\* SimulationWorker.__init__; emitted lists the signals emitted so far and
\* cancelled_at remembers how many had been emitted, and where run() stood,
\* when cancel() was first called
SimulationWorker ==
    [is_cancelled |-> FALSE, at |-> "queued", emitted |-> <<>>,
     cancelled_at |-> None]

InitWorker ==
    /\ workers = <<>>
    /\ cdi = NotStarted /\ now = 0
    /\ call = NotStarted /\ frame = NotStarted
    /\ IdleOutsideCall

OutsideWorkers ==
    <<cdi, now, callVars, rangeVars, validateVars, engineVars, reprVars, simVars>>

\* window._on_calculate: a new worker is created and handed to the pool
OnCalculate ==
    /\ Len(workers) < MaxWorkers
    /\ workers' = Append(workers, SimulationWorker)
    /\ UNCHANGED OutsideWorkers

\* SimulationWorker.cancel()
Cancel(w) ==
    /\ workers' = [workers EXCEPT ![w] =
           [@ EXCEPT !.is_cancelled = TRUE,
                     !.cancelled_at = IF @ = None
                                          THEN Some(<<Len(workers[w].emitted),
                                                      workers[w].at>>)
                                      ELSE @]]
    /\ UNCHANGED OutsideWorkers

\* run(): self.signals.started.emit()
EmitStarted(w) ==
    /\ workers[w].at = "queued"
    /\ workers' = [workers EXCEPT ![w] =
           [@ EXCEPT !.emitted = Append(@, "started"), !.at = "first_check"]]
    /\ UNCHANGED OutsideWorkers

\* run(): the first `if self._is_cancelled: return`
FirstCheck(w) ==
    /\ workers[w].at = "first_check"
    /\ workers' = [workers EXCEPT ![w].at =
           IF workers[w].is_cancelled THEN "returned" ELSE "simulate"]
    /\ UNCHANGED OutsideWorkers

\* run(): run_full_simulation(self.params) returns
SimulationReturns(w) ==
    /\ workers[w].at = "simulate"
    /\ workers' = [workers EXCEPT ![w].at = "second_check"]
    /\ UNCHANGED OutsideWorkers

\* run(): run_full_simulation raises and the except clause emits error
SimulationRaises(w) ==
    /\ workers[w].at = "simulate"
    /\ workers' = [workers EXCEPT ![w] =
           [@ EXCEPT !.emitted = Append(@, "error"), !.at = "returned"]]
    /\ UNCHANGED OutsideWorkers

\* run(): the second `if self._is_cancelled: return`
SecondCheck(w) ==
    /\ workers[w].at = "second_check"
    /\ workers' = [workers EXCEPT ![w].at =
           IF workers[w].is_cancelled THEN "returned" ELSE "emit"]
    /\ UNCHANGED OutsideWorkers

\* run(): self.signals.finished.emit(result)
EmitFinished(w) ==
    /\ workers[w].at = "emit"
    /\ workers' = [workers EXCEPT ![w] =
           [@ EXCEPT !.emitted = Append(@, "finished"), !.at = "returned"]]
    /\ UNCHANGED OutsideWorkers

NextWorker ==
    \/ OnCalculate
    \/ \E w \in DOMAIN workers : Cancel(w)
    \/ \E w \in DOMAIN workers : EmitStarted(w)
    \/ \E w \in DOMAIN workers : FirstCheck(w)
    \/ \E w \in DOMAIN workers : SimulationReturns(w)
    \/ \E w \in DOMAIN workers : SimulationRaises(w)
    \/ \E w \in DOMAIN workers : SecondCheck(w)
    \/ \E w \in DOMAIN workers : EmitFinished(w)

SpecWorker == InitWorker /\ [][NextWorker]_vars

\* C28: once cancel() has been called on a worker, its run() never emits
\* finished afterwards, in every interleaving of cancel() with run(); a
\* worker cancelled before run() starts emits started but neither finished
\* nor error.
C28_NoFinishedAfterCancel ==
    \A w \in DOMAIN workers :
        workers[w].cancelled_at # None =>
            LET seen == Val(workers[w].cancelled_at)[1]
                stood == Val(workers[w].cancelled_at)[2]
            IN  /\ \A i \in DOMAIN workers[w].emitted :
                       i > seen => workers[w].emitted[i] # "finished"
                /\ (stood = "queued" /\ workers[w].at = "returned") =>
                       workers[w].emitted = <<"started">>

\* ---------------------------------------------------------------------------
\* window_modern._validate_inputs: the form of the modern window
\* ---------------------------------------------------------------------------
\* the truth value Python's `or` tests on an Optional[float]: None and 0 are
\* false
Truthy(o) == o # None /\ Val(o) # 0

\* `a or b` on Optional[float] operands
OrElse(a, b) == IF Truthy(a) THEN a ELSE b

\* min_value * 1.5, exact on the even amounts the form holds
TimesOneAndHalf(v) == (3 * v) \div 2

\* the Expert-mode branch for capital_range: <<range, errors>>
ExpertCapital(capital_range) ==
    IF capital_range.deterministic = None /\ capital_range.min_value = None
        THEN <<capital_range, <<"Capital Inicial">> >>
    ELSE IF capital_range.deterministic = None
        THEN <<ParameterRange(capital_range.min_value, capital_range.min_value,
                   OrElse(capital_range.max_value,
                          Some(TimesOneAndHalf(Val(capital_range.min_value))))),
               <<>> >>
    ELSE <<capital_range, <<>> >>

\* the Expert-mode branch for aporte_range
ExpertAporte(aporte_range) ==
    IF aporte_range.deterministic = None /\ aporte_range.min_value = None
        THEN ParameterRange(Some(0), Some(0), Some(0))
    ELSE IF aporte_range.deterministic = None
        THEN ParameterRange(OrElse(aporte_range.min_value, Some(0)),
                            OrElse(aporte_range.min_value, Some(0)),
                            OrElse(aporte_range.max_value,
                                   OrElse(aporte_range.min_value, Some(0))))
    ELSE aporte_range

\* the Expert-mode branch for rent_range, from the mean and the standard
\* deviation of the historical returns
ExpertRent(rent_range, avg_return, std_return) ==
    IF rent_range.deterministic = None /\ rent_range.min_value = None
        THEN ParameterRange(Some(Max(LowRate, avg_return - 2 * std_return)),
                            Some(avg_return),
                            Some(IF avg_return + 2 * std_return < 100
                                     THEN avg_return + 2 * std_return ELSE 100))
    ELSE IF rent_range.deterministic = None
        THEN ParameterRange(rent_range.min_value, Some(avg_return),
                            OrElse(rent_range.max_value,
                                   Some(avg_return + 2 * std_return)))
    ELSE rent_range

\* the normal-mode branch: one error for each range that fails validate()
NormalErrors(capital_range, aporte_range, rent_range, expert_without_data) ==
    (IF ParameterRangeValidate(capital_range)[1] THEN <<>>
     ELSE <<"Capital Inicial">>)
    \o (IF ParameterRangeValidate(aporte_range)[1] THEN <<>>
        ELSE <<"Aporte Mensal">>)
    \o (IF ParameterRangeValidate(rent_range)[1] THEN <<>>
        ELSE IF expert_without_data THEN <<"Modo Expert">>
        ELSE <<"Rentabilidade">>)

\* the check of the period field
FormPeriodErrors(periodo) ==
    IF periodo.text = "empty" THEN <<"Periodo: informe">>
    ELSE IF periodo.text = "invalid" THEN <<"Periodo: invalido">>
    ELSE IF periodo.value <= 0 THEN <<"Periodo: maior que zero">>
    ELSE IF periodo.value > MaxPeriod THEN <<"Periodo: maximo">>
    ELSE <<>>

\* _validate_inputs(): (is_valid, errors, mc_input)
ValidateInputs(form) ==
    LET is_expert_mode == form.expert_mode
        has_historical == form.historical.count >= 2
        synthesise == is_expert_mode /\ has_historical
        capital == IF synthesise THEN ExpertCapital(form.capital)[1] ELSE form.capital
        aporte == IF synthesise THEN ExpertAporte(form.aporte) ELSE form.aporte
        rent == IF synthesise
                    THEN ExpertRent(form.rent, form.historical.avg_return,
                                    form.historical.std_return)
                ELSE form.rent
        errors ==
            (IF synthesise THEN ExpertCapital(form.capital)[2]
             ELSE NormalErrors(form.capital, form.aporte, form.rent,
                               is_expert_mode /\ ~has_historical))
            \o FormPeriodErrors(form.periodo)
            \o (IF is_expert_mode /\ form.method_idx = 0 /\ ~has_historical
                    THEN <<"Bootstrap">> ELSE <<>>)
    IN  IF errors # <<>> THEN [valid |-> FALSE, errors |-> errors, mc_input |-> None]
        ELSE [valid |-> TRUE, errors |-> <<>>,
              mc_input |-> Some(MonteCarloInput(capital, aporte, rent,
                                                form.periodo.value, form.meta,
                                                form.n_simulations, form.start_date))]

\* ---------------------------------------------------------------------------
\* SpecForm: _validate_inputs on forms whose fields are filled or left empty
\* independently of each other
\* ---------------------------------------------------------------------------
\* what get_parameter_range() returns for the three text fields of a
\* parameter
FieldRanges ==
    {ParameterRange(mn, det, mx) :
        mn \in {None, Some(0), Some(2)}, det \in {None, Some(2)},
        mx \in {None, Some(2)}}

PeriodFields ==
    {[text |-> "empty"], [text |-> "invalid"]}
    \cup {[text |-> "number", value |-> v] : v \in {0, 1, MaxPeriod + 1}}

\* the historical returns: their number, mean and standard deviation
HistoricalData ==
    {[count |-> 1, avg_return |-> 10, std_return |-> 0],
     [count |-> 2, avg_return |-> 10, std_return |-> 0],
     [count |-> 2, avg_return |-> 10, std_return |-> 5]}

\* the range of the simulations spin box
SpinSimulations == {100, 50000}

InitForm ==
    /\ call \in {[expert_mode |-> e, historical |-> h, capital |-> c, aporte |-> a,
                  rent |-> r, periodo |-> p, method_idx |-> x, meta |-> 0,
                  n_simulations |-> n, start_date |-> StartOfYear] :
                    e \in BOOLEAN, h \in HistoricalData, c \in FieldRanges,
                    a \in FieldRanges, r \in FieldRanges, p \in PeriodFields,
                    x \in {0, 1}, n \in SpinSimulations}
    /\ frame = NotStarted
    /\ IdleOutsideCall
    /\ IdleModules

CallValidateInputs ==
    /\ frame = NotStarted
    /\ frame' = [state |-> "returned"] @@ ValidateInputs(call)
    /\ UNCHANGED <<moduleVars, rangeVars, validateVars, engineVars, reprVars, simVars, call>>

NextForm == CallValidateInputs

SpecForm == InitForm /\ [][NextForm]_vars

\* C29: every MonteCarloInput that _validate_inputs returns as valid, in
\* normal mode or in Expert mode with historical data, passes
\* MonteCarloInput.validate_all, so the MonteCarloEngine constructor does not
\* raise for it.
C29_AcceptedFormPassesEngine ==
    (frame # NotStarted /\ frame.valid) =>
        /\ ValidateAll(Val(frame.mc_input))[1]
        /\ ~EngineInit(Val(frame.mc_input)).raises

\* ---------------------------------------------------------------------------
\* statistics.calculate_risk_metrics: var_95 and cvar_95 in floating point.
\* A float is the fraction <<numerator, denominator>> of a number with
\* MantissaBits significant binary digits; every arithmetic operation
\* returns its exact result rounded to the nearest such number, ties to the
\* even mantissa.
\* ---------------------------------------------------------------------------
\* the integer nearest to n / d, ties to even, for n >= 0 and d > 0
RoundHalfEven(n, d) ==
    LET q == n \div d
        r == n % d
    IN  IF 2 * r < d THEN q
        ELSE IF 2 * r > d THEN q + 1
        ELSE IF q % 2 = 0 THEN q ELSE q + 1

\* the binary exponent e of n / d > 0: 2^e <= n / d < 2^(e + 1)
ExponentOf(n, d) ==
    CHOOSE e \in -16..16 :
        IF e >= 0 THEN Pow(2, e) * d <= n /\ n < Pow(2, e + 1) * d
        ELSE d <= n * Pow(2, -e) /\ n * Pow(2, -e - 1) < d

\* n / d > 0 rounded to MantissaBits significant digits
RoundPositive(n, d) ==
    LET k == ExponentOf(n, d) - MantissaBits + 1
    IN  IF k >= 0 THEN <<RoundHalfEven(n, d * Pow(2, k)) * Pow(2, k), 1>>
        ELSE <<RoundHalfEven(n * Pow(2, -k), d), Pow(2, -k)>>

\* the float nearest to the fraction x
Float(x) ==
    IF x[1] = 0 THEN <<0, 1>>
    ELSE IF x[1] > 0 THEN RoundPositive(x[1], x[2])
    ELSE <<-RoundPositive(-x[1], x[2])[1], RoundPositive(-x[1], x[2])[2]>>

FloatAdd(x, y) == Float(<<x[1] * y[2] + y[1] * x[2], x[2] * y[2]>>)

FloatSubtract(x, y) == Float(<<x[1] * y[2] - y[1] * x[2], x[2] * y[2]>>)

FloatDivide(x, n) == Float(<<x[1], x[2] * n>>)

\* x <= y on fractions with positive denominators
AtMost(x, y) == x[1] * y[2] <= y[1] * x[2]

\* the sum of a[1..i], accumulated in index order
RECURSIVE FloatSum(_, _)
FloatSum(a, i) ==
    IF i = 0 THEN <<0, 1>> ELSE FloatAdd(FloatSum(a, i - 1), <<a[i], 1>>)

\* np.mean(a) for a non-empty array
FloatMean(a) == FloatDivide(FloatSum(a, Len(a)), Len(a))

\* a[i] for the indices of I, as one array
RECURSIVE Selected(_, _, _)
Selected(a, I, i) ==
    IF i > Len(a) THEN <<>>
    ELSE (IF i \in I THEN <<a[i]>> ELSE <<>>) \o Selected(a, I, i + 1)

\* lines 666-697 with cvar_95 = max(0, worst_mean - saldo_medio)
CalculateVarCvar_SwappedShortfall(final_balances) ==
    LET saldo_medio == FloatMean(final_balances)
        p5 == Float(Percentile(final_balances, 5))
        worst == {i \in DOMAIN final_balances : AtMost(<<final_balances[i], 1>>, p5)}
        worst_mean == IF worst # {} THEN FloatMean(Selected(final_balances, worst, 1))
                      ELSE p5
        var_95 == FloatSubtract(saldo_medio, p5)
        cvar_95 == FloatSubtract(worst_mean, saldo_medio)
    IN  [saldo_medio |-> saldo_medio, p5 |-> p5, worst_cases |-> worst,
         worst_mean |-> worst_mean,
         var_95 |-> IF var_95[1] > 0 THEN var_95 ELSE <<0, 1>>,
         cvar_95 |-> IF cvar_95[1] > 0 THEN cvar_95 ELSE <<0, 1>>]

\* calculate_risk_metrics, lines 666-697, for a non-empty array: the locals
\* saldo_medio, p5, worst_cases (as indices) and worst_mean, and the
\* returned var_95 and cvar_95
CalculateVarCvar(final_balances) ==
    LET saldo_medio == FloatMean(final_balances)
        p5 == Float(Percentile(final_balances, 5))
        worst == {i \in DOMAIN final_balances : AtMost(<<final_balances[i], 1>>, p5)}
        worst_mean == IF worst # {} THEN FloatMean(Selected(final_balances, worst, 1))
                      ELSE p5
        var_95 == FloatSubtract(saldo_medio, p5)
        cvar_95 == FloatSubtract(saldo_medio, worst_mean)
    IN  [saldo_medio |-> saldo_medio, p5 |-> p5, worst_cases |-> worst,
         worst_mean |-> worst_mean,
         var_95 |-> IF var_95[1] > 0 THEN var_95 ELSE <<0, 1>>,
         cvar_95 |-> IF cvar_95[1] > 0 THEN cvar_95 ELSE <<0, 1>>]

\* ---------------------------------------------------------------------------
\* SpecShortfall: var_95 and cvar_95 of every array of 1..MaxScenarios
\* balances that are floats
\* ---------------------------------------------------------------------------
FloatBalances == {0, 13, 25}

InitShortfall ==
    /\ call \in {[final_balances |-> a] :
                    a \in UNION {[1..n -> FloatBalances] : n \in 1..MaxScenarios}}
    /\ frame = NotStarted
    /\ IdleOutsideCall
    /\ IdleModules

CallCalculateVarCvar ==
    /\ frame = NotStarted
    /\ frame' = [state |-> "returned"] @@ CalculateVarCvar(call.final_balances)
    /\ UNCHANGED <<moduleVars, rangeVars, validateVars, engineVars, reprVars, simVars, call>>

NextShortfall == CallCalculateVarCvar

SpecShortfall == InitShortfall /\ [][NextShortfall]_vars

\* the mean of the values <= P5 without rounding
ExactWorstMean ==
    LET worst == frame.worst_cases
    IN  <<SumOver(worst, [i \in worst |-> call.final_balances[i]]), Cardinality(worst)>>

\* C30 as claimed: calculate_risk_metrics returns cvar_95 >= var_95 >= 0 for
\* every non-empty array: the set of values <= P5 is never empty and its
\* mean never exceeds P5.
C30_CvarAtLeastVar ==
    frame # NotStarted =>
        /\ frame.var_95[1] >= 0
        /\ AtMost(frame.var_95, frame.cvar_95)
        /\ frame.worst_cases # {}
        /\ AtMost(frame.worst_mean, frame.p5)

\* C30 (amended): var_95 >= 0 and cvar_95 >= 0, the set of values <= P5 is
\* never empty and its exact mean never exceeds P5; cvar_95 >= var_95
\* whenever the computed mean of that set does not exceed P5, which is the
\* case whenever that mean is computed without rounding error.
C30_CvarAtLeastVarUnlessRounded ==
    frame # NotStarted =>
        /\ frame.var_95[1] >= 0 /\ frame.cvar_95[1] >= 0
        /\ frame.worst_cases # {}
        /\ AtMost(ExactWorstMean, frame.p5)
        /\ AtMost(frame.worst_mean, frame.p5) => AtMost(frame.var_95, frame.cvar_95)
        /\ (frame.worst_mean[1] * ExactWorstMean[2]
                = ExactWorstMean[1] * frame.worst_mean[2]) =>
               AtMost(frame.var_95, frame.cvar_95)

\* several values at or below P5, above it a larger one, and a loss
C30_Witness ==
    /\ frame # NotStarted
    /\ Cardinality(frame.worst_cases) >= 2
    /\ frame.var_95[1] > 0
    /\ AtMost(frame.var_95, frame.cvar_95)

====
